---- MODULE Spec2Model ----
(***************************************************************************)
(* State-machine model of the shadow-view layout layer (RCTShadowView) and *)
(* of the small helpers that accompany it.  Each operation of the class is *)
(* one action; the flexbox solver (Yoga), which the class drives through   *)
(* its C API, is modelled at that API's boundary.                          *)
(***************************************************************************)
EXTENDS Integers, Sequences, FiniteSets, TLC

\* ------------------------------------------------------------------ bounds
NumViews == 3        \* shadow views in the model
MaxSubviews == 3     \* child links in all (tree specification)
MaxMutations == 2    \* style and tree mutations after the initial state (layout specifications)
MaxLeaked == 2       \* solver handles that may stay allocated beyond the views' own
MaxPropWrites == 1   \* meta prop setter calls after the initial state (box-model specification)
MaxNesting == 2      \* layout calls inside the solver at a time (re-entry specification)
MaxSubmitted == 3    \* PersistentLog operations submitted (log specification)
MaxStates == 3       \* AndroidTextInputState values built in a run

Views == 1..NumViews
Root == 1
Nil == 0
\* YGUndefined, the solver's "no value" float: a number no style value of the model takes.
Undefined == -1000
\* The cache of a solver node that was never computed as a root.
NoCache == <<<<0, 0>>, "never">>

\* Values the environment calls the operations with.
Coords == {0, 5, 10}
MinimumSizes == {<<0, 0>>, <<20, 20>>}
MaximumSizes == {<<100, 100>>}
Directions == {"LTR"}
Displays == {"flex", "none"}

Add(p, q) == <<p[1] + q[1], p[2] + q[2]>>
Max(a, b) == IF a >= b THEN a ELSE b
Min(a, b) == IF a <= b THEN a ELSE b

VARIABLES
  reactSubviews,      \* view -> its _reactSubviews array (a sequence of views)
  superview,          \* view -> its _superview back-reference, or Nil
  layoutMetrics,      \* view -> its stored layoutMetrics
  yogaChildren,       \* solver handle -> the solver node's child list
  yogaOwner,          \* solver handle -> the solver node's owner, or Nil
  yogaDirty,          \* solver handle -> the solver node's dirty flag
  yogaHasNewLayout,   \* solver handle -> the solver node's has-new-layout flag
  yogaStyle,          \* solver handle -> the solver node's style
  yogaLayout,         \* solver handle -> the solver node's computed layout
  yogaCache,          \* solver handle -> the constraints of its last computation as a root
  affectedShadowViews,\* layoutContext.affectedShadowViews of the current/last pass
  passTrace,          \* the layoutContext each node of the last pass was applied with
  lastCall,           \* the last operation called and its arguments
  repeatPass,         \* the last operation repeated the layout call before it
  measuredSize,       \* what the last sizeThatFits call returned
  mutations,          \* style and tree mutations made so far
  hitResult,          \* the last reactTagAtPoint call: view, point and the tag returned
  intrinsicContentSize, \* view -> its _intrinsicContentSize
  hasMeasureFunc,     \* view -> whether its solver node has RCTShadowViewMeasure installed
  measureResult,      \* the last call of the measure callback: arguments and result
  doLeftAndRightSwapInRTL, \* [[RCTI18nUtil sharedInstance] doLeftAndRightSwapInRTL]
  paddingMetaProps,   \* view -> its _paddingMetaProps array
  marginMetaProps,    \* view -> its _marginMetaProps array
  borderMetaProps,    \* view -> its _borderMetaProps array
  recompute,          \* view -> its _recomputePadding/_recomputeMargin/_recomputeBorder flags
  yogaPadding,        \* view -> edge -> the padding its solver node has
  yogaMargin,         \* view -> edge -> the margin its solver node has
  yogaBorder,         \* view -> edge -> the border width its solver node has
  leafOnly,           \* the views whose class overrides canHaveSubviews to return NO
  rootHadNewLayout,   \* what YGNodeGetHasNewLayout returned at line 287 of the last pass
  passRaised,         \* an RCTAssert of the last pass (line 285 or 322) failed
  solvedHasNewLayout, \* view -> the has-new-layout flag the solver left in the last pass
  phase,              \* where a layout call taken step by step is: Idle, Solving, Applying
  calculating,        \* the layout calls that have entered the solver and not returned
  ancestorResult,     \* the last ancestor query and its answer
  textInputStates,    \* the AndroidTextInputState values built so far, oldest first
  textInputDynamic,   \* the last getDynamic call and the map it returned
  logFile,            \* file path -> the characters of the file, or NoFile
  serialQueue,        \* PersistentLog.serialQueue: the blocks submitted and not started
  running,            \* the block the queue is executing, with its local variables
  resolved            \* the promises settled so far, in the order they were settled

treeSolverVars == <<yogaChildren, yogaOwner, yogaDirty>>
solverVars == <<yogaHasNewLayout, yogaStyle, yogaLayout, yogaCache>>
queryVars == <<hitResult, intrinsicContentSize, hasMeasureFunc, measureResult>>
metaVars == <<doLeftAndRightSwapInRTL, paddingMetaProps, marginMetaProps, borderMetaProps,
              recompute, yogaPadding, yogaMargin, yogaBorder>>
logVars == <<logFile, serialQueue, running, resolved>>
textVars == <<textInputStates, textInputDynamic>>
extVars == <<leafOnly, rootHadNewLayout, passRaised, solvedHasNewLayout, phase, calculating,
             ancestorResult, textVars,
                 logVars>>
passVars == <<layoutMetrics, affectedShadowViews, passTrace, repeatPass, measuredSize,
              queryVars, metaVars>>
vars == <<reactSubviews, superview, layoutMetrics, yogaChildren, yogaOwner, yogaDirty,
          yogaHasNewLayout, yogaStyle, yogaLayout, yogaCache, affectedShadowViews,
          passTrace, lastCall, repeatPass, measuredSize, mutations, queryVars, metaVars,
          extVars>>

\* The solver node a shadow view owns (_yogaNode): one per view, created in init.
YogaNodeOf(v) == v

\* --------------------------------------------------------- array helpers
\* -[NSMutableArray insertObject:atIndex:], index counted from 0.
InsertObjectAtIndex(s, e, i) == SubSeq(s, 1, i) \o <<e>> \o SubSeq(s, i + 1, Len(s))

\* -[NSMutableArray removeObject:]: every occurrence goes.
RemoveObject(s, e) == SelectSeq(s, LAMBDA x : x # e)

Contains(s, e) == \E i \in 1..Len(s) : s[i] = e

\* YGNodeNewWithConfig: the style a fresh solver node has.
YGStyleNew == [left |-> Undefined, top |-> Undefined, display |-> "flex",
               minSize |-> <<Undefined, Undefined>>, maxSize |-> <<Undefined, Undefined>>]
\* The layout of a solver node that was never computed.
YGLayoutNew == [frame |-> [origin |-> <<0, 0>>, size |-> <<0, 0>>],
                direction |-> "LTR", display |-> "flex"]
\* The zero-filled layoutMetrics of a shadow view that was never laid out.
LayoutMetricsZero == [frame |-> [origin |-> <<0, 0>>, size |-> <<0, 0>>],
                      layoutDirection |-> "LTR", displayType |-> "none"]

\* --------------------------------------------------------- the solver API
\* The solver's state as one value Y, and its assignment back to the variables.
SolverState == [children |-> yogaChildren, owner |-> yogaOwner, dirty |-> yogaDirty,
                hasNewLayout |-> yogaHasNewLayout, style |-> yogaStyle,
                layout |-> yogaLayout, cache |-> yogaCache]

SetSolverState(Y) ==
  /\ yogaChildren' = Y.children
  /\ yogaOwner' = Y.owner
  /\ yogaDirty' = Y.dirty
  /\ yogaHasNewLayout' = Y.hasNewLayout
  /\ yogaStyle' = Y.style
  /\ yogaLayout' = Y.layout
  /\ yogaCache' = Y.cache

\* The solver handles that are allocated and not freed.
LiveHandles == DOMAIN yogaChildren

RECURSIVE MarkDirtyAndPropogate(_, _, _)
MarkDirtyAndPropogate(dirty, owner, n) ==
  IF dirty[n] THEN dirty
  ELSE LET d1 == [dirty EXCEPT ![n] = TRUE]
       IN  IF owner[n] = Nil THEN d1 ELSE MarkDirtyAndPropogate(d1, owner, owner[n])

RECURSIVE RemoveFirst(_, _)
RemoveFirst(s, e) ==
  IF s = <<>> THEN <<>>
  ELSE IF Head(s) = e THEN Tail(s) ELSE <<Head(s)>> \o RemoveFirst(Tail(s), e)

\* YGNodeInsertChild(owner, child, index): the child becomes the owner's child
\* at index, and the owner is dirtied.
YGNodeInsertChild(Y, owner, child, index) ==
  LET own == [Y.owner EXCEPT ![child] = owner]
  IN  [Y EXCEPT !.children[owner] = InsertObjectAtIndex(@, child, index),
                !.owner = own,
                !.dirty = MarkDirtyAndPropogate(Y.dirty, own, owner)]

\* YGNodeRemoveChild(owner, child): detaches one child link, if there is one.
YGNodeRemoveChild(Y, owner, child) ==
  IF ~Contains(Y.children[owner], child) THEN Y
  ELSE LET own == IF Y.owner[child] = owner THEN [Y.owner EXCEPT ![child] = Nil] ELSE Y.owner
       IN  [Y EXCEPT !.children[owner] = RemoveFirst(@, child),
                     !.owner = own,
                     !.dirty = MarkDirtyAndPropogate(Y.dirty, own, owner)]

\* YGNodeNewWithConfig: a fresh solver node under handle h.
YGNodeNewWithConfig(Y, h) ==
  [children |-> Y.children @@ (h :> <<>>), owner |-> Y.owner @@ (h :> Nil),
   dirty |-> Y.dirty @@ (h :> FALSE), hasNewLayout |-> Y.hasNewLayout @@ (h :> TRUE),
   style |-> Y.style @@ (h :> YGStyleNew), layout |-> Y.layout @@ (h :> YGLayoutNew),
   cache |-> Y.cache @@ (h :> NoCache)]

\* YGNodeClone(n): a copy of n's solver state under handle h, owned by nobody.
YGNodeClone(Y, n, h) ==
  [children |-> Y.children @@ (h :> Y.children[n]), owner |-> Y.owner @@ (h :> Nil),
   dirty |-> Y.dirty @@ (h :> Y.dirty[n]),
   hasNewLayout |-> Y.hasNewLayout @@ (h :> Y.hasNewLayout[n]),
   style |-> Y.style @@ (h :> Y.style[n]), layout |-> Y.layout @@ (h :> Y.layout[n]),
   cache |-> Y.cache @@ (h :> Y.cache[n])]

Without(f, h) == [x \in DOMAIN f \ {h} |-> f[x]]
\* YGNodeFree(h): the handle is released.
YGNodeFree(Y, h) ==
  [children |-> Without(Y.children, h), owner |-> Without(Y.owner, h),
   dirty |-> Without(Y.dirty, h), hasNewLayout |-> Without(Y.hasNewLayout, h),
   style |-> Without(Y.style, h), layout |-> Without(Y.layout, h),
   cache |-> Without(Y.cache, h)]

\* ------------------------------------------------------- construction
\* meta_prop_t, and the solver's edges.
MetaProps == {"LEFT", "TOP", "RIGHT", "BOTTOM", "START", "END", "HORIZONTAL", "VERTICAL", "ALL"}
YGEdges == {"Left", "Top", "Right", "Bottom", "Start", "End", "Horizontal", "Vertical", "All"}
YGValueUndefined == [unit |-> "undefined", value |-> Undefined]
\* UIViewNoIntrinsicMetric
UIViewNoIntrinsicMetric == -1
NoCall == [op |-> "none"]

\* -init: no intrinsic content size, no measure function; nothing measured.
InitQuery ==
  /\ hitResult = NoCall
  /\ intrinsicContentSize = [v \in Views |-> <<UIViewNoIntrinsicMetric, UIViewNoIntrinsicMetric>>]
  /\ hasMeasureFunc = [v \in Views |-> FALSE]
  /\ measureResult = NoCall

\* -init: the meta props undefined; the solver node new.
InitMetaProps ==
  /\ paddingMetaProps = [v \in Views |-> [m \in MetaProps |-> YGValueUndefined]]
  /\ marginMetaProps = [v \in Views |-> [m \in MetaProps |-> YGValueUndefined]]
  /\ borderMetaProps = [v \in Views |-> [m \in MetaProps |-> YGValueUndefined]]
  /\ recompute = [v \in Views |-> [padding |-> FALSE, margin |-> FALSE, border |-> FALSE]]
  /\ yogaPadding = [v \in Views |-> [e \in YGEdges |-> YGValueUndefined]]
  /\ yogaMargin = [v \in Views |-> [e \in YGEdges |-> YGValueUndefined]]
  /\ yogaBorder = [v \in Views |-> [e \in YGEdges |-> Undefined]]

\* ------------------------------------------------------- tree operations
\* No layout pass has run, nothing was called.
\* PersistentLog: the file paths in use, a file that does not exist, an idle queue.
LogFiles == {"log"}
NoFile == <<"absent">>
NoBlock == [op |-> "none"]
InitLogIdle ==
  /\ logFile = [f \in LogFiles |-> NoFile]
  /\ serialQueue = <<>>
  /\ running = NoBlock
  /\ resolved = <<>>

\* Every view is of the base class, whose canHaveSubviews returns YES.
InitTypes == leafOnly = {}

InitContext ==
  /\ affectedShadowViews = {}
  /\ rootHadNewLayout = FALSE
  /\ passRaised = FALSE
  /\ solvedHasNewLayout = [v \in Views |-> FALSE]
  /\ phase = "Idle"
  /\ calculating = <<>>
  /\ ancestorResult = NoCall
  /\ textInputStates = <<>>
  /\ textInputDynamic = NoCall
  /\ passTrace = <<>>
  /\ lastCall = [op |-> "init"]
  /\ repeatPass = FALSE
  /\ measuredSize = <<0, 0>>
  /\ mutations = 0
  /\ InitQuery

InitPass ==
  /\ layoutMetrics = [v \in Views |-> LayoutMetricsZero]
  /\ doLeftAndRightSwapInRTL = FALSE
  /\ InitMetaProps
  /\ InitContext
  /\ InitTypes
  /\ InitLogIdle

\* -[RCTShadowView init] for every view: nothing attached, nothing computed.
InitDetached ==
  /\ reactSubviews = [v \in Views |-> <<>>]
  /\ superview = [v \in Views |-> Nil]
  /\ yogaChildren = [v \in Views |-> <<>>]
  /\ yogaOwner = [v \in Views |-> Nil]
  /\ yogaDirty = [v \in Views |-> FALSE]
  /\ yogaHasNewLayout = [v \in Views |-> TRUE]
  /\ yogaStyle = [v \in Views |-> YGStyleNew]
  /\ yogaLayout = [v \in Views |-> YGLayoutNew]
  /\ yogaCache = [v \in Views |-> NoCache]

InitTree == InitDetached /\ InitPass

\* -canHaveSubviews: YES in RCTShadowView, NO in the subclasses that override it.
canHaveSubviews(self) == self \notin leafOnly
isYogaLeafNode(self) == FALSE

\* -insertReactSubview:atIndex:
\* -insertReactSubview:atIndex: without the assertion of line 233.
insertReactSubviewUnasserted(self, subview, atIndex) ==
  /\ atIndex \in 0..Len(reactSubviews[self])
  /\ reactSubviews' = [reactSubviews EXCEPT ![self] = InsertObjectAtIndex(@, subview, atIndex)]
  /\ SetSolverState(YGNodeInsertChild(SolverState, YogaNodeOf(self), YogaNodeOf(subview), atIndex))
  /\ superview' = [superview EXCEPT ![subview] = self]
  /\ lastCall' = [op |-> "insertReactSubview", self |-> self, subview |-> subview,
                  atIndex |-> atIndex, raised |-> ~canHaveSubviews(self)]
  /\ UNCHANGED <<passVars, extVars>>

\* RCTAssert(self.canHaveSubviews, ...) at line 233 raises before anything is written.
insertReactSubview(self, subview, atIndex) ==
  /\ atIndex \in 0..Len(reactSubviews[self])
  /\ IF ~canHaveSubviews(self)
       THEN UNCHANGED <<reactSubviews, superview, treeSolverVars, solverVars>>
       ELSE /\ reactSubviews' = [reactSubviews EXCEPT ![self] = InsertObjectAtIndex(@, subview, atIndex)]
            /\ IF ~isYogaLeafNode(self)
                 THEN SetSolverState(YGNodeInsertChild(SolverState, YogaNodeOf(self),
                                                       YogaNodeOf(subview), atIndex))
                 ELSE UNCHANGED <<treeSolverVars, solverVars>>
            /\ superview' = [superview EXCEPT ![subview] = self]
  /\ lastCall' = [op |-> "insertReactSubview", self |-> self, subview |-> subview,
                  atIndex |-> atIndex, raised |-> ~canHaveSubviews(self)]
  /\ UNCHANGED <<passVars, extVars>>

\* -removeReactSubview:
removeReactSubview(self, subview) ==
  /\ superview' = [superview EXCEPT ![subview] = Nil]
  /\ reactSubviews' = [reactSubviews EXCEPT ![self] = RemoveObject(@, subview)]
  /\ IF ~isYogaLeafNode(self)
       THEN SetSolverState(YGNodeRemoveChild(SolverState, YogaNodeOf(self), YogaNodeOf(subview)))
       ELSE UNCHANGED <<treeSolverVars, solverVars>>
  /\ lastCall' = [op |-> "removeReactSubview", self |-> self, subview |-> subview]
  /\ UNCHANGED <<passVars, extVars>>

\* The bound of the model: at most MaxSubviews child links in all, on either side.
RECURSIVE SumLen(_, _)
SumLen(f, S) == IF S = {} THEN 0
                ELSE LET v == CHOOSE x \in S : TRUE IN Len(f[v]) + SumLen(f, S \ {v})
RoomForChild == /\ SumLen(reactSubviews, Views) < MaxSubviews
                /\ SumLen(yogaChildren, Views) < MaxSubviews

InsertChild == \E self \in Views : \E subview \in Views \ {self}, atIndex \in 0..MaxSubviews :
                 RoomForChild /\ insertReactSubview(self, subview, atIndex)
                 /\ UNCHANGED mutations
RemoveChild == \E self \in Views : \E subview \in Views \ {self} :
                 removeReactSubview(self, subview) /\ UNCHANGED mutations

NextTree == InsertChild \/ RemoveChild
SpecTree == InitTree /\ [][NextTree]_vars

\* The same operations on views of which any may be of a class without subviews.
InitInsert ==
  /\ InitDetached
  /\ layoutMetrics = [v \in Views |-> LayoutMetricsZero]
  /\ doLeftAndRightSwapInRTL = FALSE
  /\ InitMetaProps
  /\ InitContext
  /\ leafOnly \in SUBSET Views
  /\ InitLogIdle
SpecInsert == InitInsert /\ [][NextTree]_vars

\* C1: after any sequence of insertChild/removeChild, every node's solver child
\* list equals, element for element, the solver nodes of its shadow child list.
C1_SolverMirrorsChildList ==
  \A v \in Views :
    yogaChildren[YogaNodeOf(v)] = [i \in 1..Len(reactSubviews[v]) |-> YogaNodeOf(reactSubviews[v][i])]

\* C2: every shadow node occurs in the child list of at most one parent, and at
\* most once in it, in every state insertChild/removeChild can reach.
Occurrences(c) == {<<p, i>> \in Views \X (1..MaxSubviews) :
                     i <= Len(reactSubviews[p]) /\ reactSubviews[p][i] = c}
C2_AtMostOneParent == \A c \in Views : Cardinality(Occurrences(c)) <= 1
\* ===================================================================== layout
\* ----------------------------------------------------------- solver: compute
RECURSIVE Subtree(_, _)
\* The nodes under n (n included), following child links.
Subtree(ch, n) == {n} \cup UNION {Subtree(ch, ch[n][i]) : i \in 1..Len(ch[n])}

RECURSIVE OwnedSubtree(_, _, _)
\* The solver nodes a computation rooted at n writes: n and, child link by child
\* link, the nodes n's tree owns.  A child a clone shares with the node it was
\* cloned from is owned by that node: it is read, and not written.
OwnedSubtree(ch, owner, n) ==
  {n} \cup UNION {OwnedSubtree(ch, owner, ch[n][i]) :
                   i \in {j \in 1..Len(ch[n]) : owner[ch[n][j]] = n}}

Clamp(x, lo, hi) ==
  LET a == IF lo = Undefined THEN x ELSE Max(x, lo)
  IN  IF hi = Undefined THEN a ELSE Min(a, hi)

Defined(x, dflt) == IF x = Undefined THEN dflt ELSE x

RECURSIVE Hidden(_, _, _)
\* display: none on the node or on one of its owners.
Hidden(style, owner, n) ==
  \/ style[n].display = "none"
  \/ (owner[n] # Nil /\ Hidden(style, owner, owner[n]))

RECURSIVE MaxOf(_)
MaxOf(S) == IF S = {} THEN 0
            ELSE LET x == CHOOSE y \in S : TRUE IN Max(x, MaxOf(S \ {x}))

\* The layout the solver computes for node n of the tree under root: a function
\* of the styles, the tree and the constraints.  A root takes the available
\* size, or the extent of its children when none is given, within its minimum
\* and maximum size.
SolvedLayout(Y, root, n, avail, dir) ==
  LET hidden == Hidden(Y.style, Y.owner, n)
      origin == IF hidden THEN <<0, 0>>
                ELSE <<Defined(Y.style[n].left, 0), Defined(Y.style[n].top, 0)>>
      extent == <<MaxOf({Defined(Y.style[Y.children[n][i]].left, 0) : i \in 1..Len(Y.children[n])}),
                  MaxOf({Defined(Y.style[Y.children[n][i]].top, 0) : i \in 1..Len(Y.children[n])})>>
      size   == IF hidden \/ n # root THEN <<0, 0>>
                ELSE <<Clamp(Defined(avail[1], extent[1]), Y.style[n].minSize[1], Y.style[n].maxSize[1]),
                       Clamp(Defined(avail[2], extent[2]), Y.style[n].minSize[2], Y.style[n].maxSize[2])>>
  IN  [frame |-> [origin |-> origin, size |-> size], direction |-> dir,
       display |-> Y.style[n].display]

\* YGNodeCalculateLayout(root, width, height, direction).  Y is the solver state
\* [children, owner, dirty, hasNewLayout, style, layout, cache]; revisit says
\* whether the solver reports a new layout for a root it found unchanged.
YGNodeCalculateLayout(Y, root, avail, dir, revisit) ==
  LET sub     == OwnedSubtree(Y.children, Y.owner, root)
      fresh   == Y.cache[root] # <<avail, dir>>
      new     == [n \in sub |-> SolvedLayout(Y, root, n, avail, dir)]
      visited == {n \in sub : fresh \/ Y.dirty[n] \/ new[n] # Y.layout[n]}
                   \cup (IF revisit THEN {root} ELSE {})
  IN  [Y EXCEPT
        !.layout = [n \in DOMAIN Y.layout |-> IF n \in sub THEN new[n] ELSE Y.layout[n]],
        !.hasNewLayout = [n \in DOMAIN Y.hasNewLayout |->
                            IF n \in visited THEN TRUE ELSE Y.hasNewLayout[n]],
        !.dirty = [n \in DOMAIN Y.dirty |-> IF n \in sub THEN FALSE ELSE Y.dirty[n]],
        !.cache = [Y.cache EXCEPT ![root] = <<avail, dir>>]]

\* A style setter of the solver: the node is dirtied only if the value changes.
YGNodeStyleSet(Y, n, field, value) ==
  IF Y.style[n][field] = value THEN Y
  ELSE [Y EXCEPT !.style[n][field] = value,
                 !.dirty = MarkDirtyAndPropogate(Y.dirty, Y.owner, n)]

\* RCTLayoutMetricsFromYogaNode
RCTLayoutMetricsFromYogaNode(Y, n) ==
  [frame |-> Y.layout[n].frame, layoutDirection |-> Y.layout[n].direction,
   displayType |-> Y.layout[n].display]

\* ------------------------------------------------------------ the layout pass
\* The pass threads P = [hasNewLayout, metrics, affected, trace, raised] through the
\* tree; raised says that an RCTAssert failed, which ends the pass where it is.

\* -layoutWithMetrics:layoutContext:
layoutWithMetricsAlways(P, self, metrics) ==
  [P EXCEPT !.metrics[self] = metrics, !.affected = @ \cup {self}]
\* -layoutWithMetrics:layoutContext: without line 307.
layoutWithMetricsUnrecorded(P, self, metrics) ==
  IF P.metrics[self] # metrics THEN [P EXCEPT !.metrics[self] = metrics] ELSE P
layoutWithMetrics(P, self, metrics) ==
  IF P.metrics[self] # metrics
    THEN [P EXCEPT !.metrics[self] = metrics, !.affected = @ \cup {self}]
    ELSE P

\* What the pass records of one application: the view, the absolutePosition of the
\* context it was applied with, the absolutePosition its parent was applied with, and
\* the has-new-layout flag of its solver node when its metrics were applied.
Applied(P, v, abs, base) ==
  [P EXCEPT !.trace = Append(@, [view |-> v, absolutePosition |-> abs, parentPosition |-> base,
                                 hasNewLayout |-> P.hasNewLayout[YogaNodeOf(v)]])]

RECURSIVE layoutSubviewsFrom(_, _, _, _, _, _)
RECURSIVE layoutSubviewsWithContext(_, _, _, _)
\* -layoutSubviewsWithContext: without the test of the display type of line 313.
layoutSubviewsWithContextThroughNone(Y, P, self, abs) ==
  layoutSubviewsFrom(Y, P, self, 1, abs, abs)
\* The loop of -layoutSubviewsWithContext: taking the subviews last to first.
RECURSIVE layoutSubviewsFromLast(_, _, _, _, _, _)
layoutSubviewsFromLast(Y, P, self, i, abs, base) ==
  IF i > Len(reactSubviews[self]) \/ P.raised THEN P
  ELSE
    LET child == reactSubviews[self][Len(reactSubviews[self]) + 1 - i]
        node  == YogaNodeOf(child)
    IN  IF Y.dirty[node] THEN [P EXCEPT !.raised = TRUE]
        ELSE IF ~P.hasNewLayout[node]
          THEN layoutSubviewsFromLast(Y, P, self, i + 1, abs, base)
          ELSE
            LET P1 == [P EXCEPT !.hasNewLayout[node] = FALSE]
                childLayoutMetrics == RCTLayoutMetricsFromYogaNode(Y, node)
                abs1 == Add(abs, childLayoutMetrics.frame.origin)
                P2 == Applied(layoutWithMetrics(P1, child, childLayoutMetrics), child, abs1, base)
                P3 == layoutSubviewsWithContext(Y, P2, child, abs1)
            IN  layoutSubviewsFromLast(Y, P3, self, i + 1, abs1, base)

\* The loop of -layoutSubviewsWithContext: without the assertion of line 322.
RECURSIVE layoutSubviewsFromUnasserted(_, _, _, _, _, _)
layoutSubviewsFromUnasserted(Y, P, self, i, abs, base) ==
  IF i > Len(reactSubviews[self]) \/ P.raised THEN P
  ELSE
    LET child == reactSubviews[self][i]
        node  == YogaNodeOf(child)
    IN  IF ~P.hasNewLayout[node]
          THEN layoutSubviewsFromUnasserted(Y, P, self, i + 1, abs, base)
          ELSE
            LET P1 == [P EXCEPT !.hasNewLayout[node] = FALSE]
                childLayoutMetrics == RCTLayoutMetricsFromYogaNode(Y, node)
                abs1 == Add(abs, childLayoutMetrics.frame.origin)
                P2 == Applied(layoutWithMetrics(P1, child, childLayoutMetrics), child, abs1, base)
                P3 == layoutSubviewsWithContext(Y, P2, child, abs1)
            IN  layoutSubviewsFromUnasserted(Y, P3, self, i + 1, abs1, base)

\* -layoutSubviewsWithContext: the loop from child i on; abs is the running
\* layoutContext.absolutePosition, base its value on entry.  A failed RCTAssert
\* (line 322) raises out of the loop and of every loop around it.
layoutSubviewsFrom(Y, P, self, i, abs, base) ==
  IF i > Len(reactSubviews[self]) \/ P.raised THEN P
  ELSE
    LET child == reactSubviews[self][i]
        node  == YogaNodeOf(child)
    IN  IF Y.dirty[node] THEN [P EXCEPT !.raised = TRUE]
        ELSE IF ~P.hasNewLayout[node]
          THEN layoutSubviewsFrom(Y, P, self, i + 1, abs, base)
          ELSE
            LET P1 == [P EXCEPT !.hasNewLayout[node] = FALSE]
                childLayoutMetrics == RCTLayoutMetricsFromYogaNode(Y, node)
                abs1 == Add(abs, childLayoutMetrics.frame.origin)
                P2 == Applied(layoutWithMetrics(P1, child, childLayoutMetrics), child, abs1, base)
                P3 == layoutSubviewsWithContext(Y, P2, child, abs1)
            IN  layoutSubviewsFrom(Y, P3, self, i + 1, abs1, base)

\* -layoutSubviewsWithContext:
layoutSubviewsWithContext(Y, P, self, abs) ==
  IF P.metrics[self].displayType = "none" THEN P
  ELSE layoutSubviewsFrom(Y, P, self, 1, abs, abs)

\* The pass proper without the early return of lines 287-289.
applyLayoutUnguarded(Y, self) ==
  LET node == YogaNodeOf(self)
      P0 == [hasNewLayout |-> Y.hasNewLayout, metrics |-> layoutMetrics,
             affected |-> {}, trace |-> <<>>, raised |-> Y.dirty[node]]
  IN  IF P0.raised THEN P0
      ELSE LET P1 == [P0 EXCEPT !.hasNewLayout[node] = FALSE]
               metrics == RCTLayoutMetricsFromYogaNode(Y, node)
               abs == Add(<<0, 0>>, metrics.frame.origin)
               P2 == Applied(layoutWithMetrics(P1, self, metrics), self, abs, <<0, 0>>)
           IN  layoutSubviewsWithContext(Y, P2, self, abs)

\* -layoutWithMinimumSize:maximumSize:layoutDirection:layoutContext: on the root,
\* called with a context whose absolutePosition is zero and whose affected set is empty.
\* The pass proper, after the solver has computed Y: lines 285-300.
applyLayout(Y, self) ==
  LET node == YogaNodeOf(self)
      P0 == [hasNewLayout |-> Y.hasNewLayout, metrics |-> layoutMetrics,
             affected |-> {}, trace |-> <<>>, raised |-> Y.dirty[node]]
  IN  IF P0.raised \/ ~Y.hasNewLayout[node] THEN P0
      ELSE LET P1 == [P0 EXCEPT !.hasNewLayout[node] = FALSE]
               metrics == RCTLayoutMetricsFromYogaNode(Y, node)
               abs == Add(<<0, 0>>, metrics.frame.origin)
               P2 == Applied(layoutWithMetrics(P1, self, metrics), self, abs, <<0, 0>>)
           IN  layoutSubviewsWithContext(Y, P2, self, abs)

\* The solver's part of the call: lines 268-283.
solveLayout(self, minimumSize, maximumSize, layoutDirection, revisit) ==
  LET node == YogaNodeOf(self)
      oldMinimumSize == <<Defined(yogaStyle[node].minSize[1], 0),
                          Defined(yogaStyle[node].minSize[2], 0)>>
      Y1 == IF oldMinimumSize # minimumSize
              THEN YGNodeStyleSet(SolverState, node, "minSize", minimumSize)
              ELSE SolverState
  IN  YGNodeCalculateLayout(Y1, node, maximumSize, layoutDirection, revisit)

\* -layoutWithMinimumSize:maximumSize:layoutDirection:layoutContext: on the root,
\* called with a context whose absolutePosition is zero and whose affected set is empty.
layoutWithMinimumSize(self, minimumSize, maximumSize, layoutDirection, revisit) ==
  \E Y \in {solveLayout(self, minimumSize, maximumSize, layoutDirection, revisit)} :
    /\ \E P \in {applyLayout(Y, self)} :
         /\ SetSolverState([Y EXCEPT !.hasNewLayout = P.hasNewLayout])
         /\ layoutMetrics' = P.metrics
         /\ affectedShadowViews' = P.affected
         /\ passTrace' = P.trace
         /\ passRaised' = P.raised
    /\ LET call == [op |-> "layout", minimumSize |-> minimumSize,
                    maximumSize |-> maximumSize, layoutDirection |-> layoutDirection]
       IN  /\ repeatPass' = (lastCall = call)
           /\ lastCall' = call
    /\ rootHadNewLayout' = Y.hasNewLayout[YogaNodeOf(self)]
    /\ solvedHasNewLayout' = [v \in Views |-> Y.hasNewLayout[YogaNodeOf(v)]]
    /\ calculating' = IF calculating = <<>> THEN calculating
                      ELSE SubSeq(calculating, 1, Len(calculating) - 1)
    /\ UNCHANGED <<reactSubviews, superview, mutations, measuredSize, queryVars, metaVars,
                   leafOnly, phase, ancestorResult, textVars,
                 logVars>>

Layout == \E minimumSize \in MinimumSizes, maximumSize \in MaximumSizes,
             layoutDirection \in Directions, revisit \in BOOLEAN :
            layoutWithMinimumSize(Root, minimumSize, maximumSize, layoutDirection, revisit)
\* ------------------------------------------------------------- style setters
\* RCT_SET_YGVALUE: what the macro hands to the solver's setter for a YGValue.
\* setter(.., YGUndefined) stores the undefined value, setter(.., v) v points,
\* setter##Percent(.., v) v percent.
RCT_SET_YGVALUE(ygvalue) ==
  CASE ygvalue.unit \in {"auto", "undefined"} -> YGValueUndefined
    [] ygvalue.unit = "point" -> [unit |-> "point", value |-> ygvalue.value]
    [] ygvalue.unit = "percent" -> [unit |-> "percent", value |-> ygvalue.value]

\* RCT_SET_YGVALUE_AUTO: as above, and setter##Auto(..) stores auto.
RCT_SET_YGVALUE_AUTO(ygvalue) ==
  CASE ygvalue.unit = "auto" -> [unit |-> "auto", value |-> Undefined]
    [] ygvalue.unit = "undefined" -> YGValueUndefined
    [] ygvalue.unit = "point" -> [unit |-> "point", value |-> ygvalue.value]
    [] ygvalue.unit = "percent" -> [unit |-> "percent", value |-> ygvalue.value]

YGPoint(c) == [unit |-> "point", value |-> c]

StyleMutation(Y0, name) ==
  /\ mutations < MaxMutations
  /\ mutations' = mutations + 1
  /\ \E Y \in {Y0} : SetSolverState(Y)
  /\ lastCall' = [op |-> name]
  /\ UNCHANGED <<reactSubviews, superview, passVars, extVars>>

\* -setLeft: (the edge it writes is the horizontal offset of the model's solver,
\* which keeps positions in points)
setLeft(self, value) ==
  StyleMutation(YGNodeStyleSet(SolverState, YogaNodeOf(self), "left", RCT_SET_YGVALUE(value).value), "setLeft")
\* -setTop:
setTop(self, value) ==
  StyleMutation(YGNodeStyleSet(SolverState, YogaNodeOf(self), "top", RCT_SET_YGVALUE(value).value), "setTop")
\* -setDisplay:
setDisplay(self, value) ==
  StyleMutation(YGNodeStyleSet(SolverState, YogaNodeOf(self), "display", value), "setDisplay")

SetLeft == \E self \in Views, c \in Coords : setLeft(self, YGPoint(c))
SetTop == \E self \in Views, c \in Coords : setTop(self, YGPoint(c))
SetDisplay == \E self \in Views, d \in Displays : setDisplay(self, d)

\* The tree mutations of a caller that keeps the tree a tree: it attaches a view
\* that has no parent, never under itself, and detaches a view from its parent.
AttachChild ==
  \E self \in Views : \E subview \in Views \ {self, Root}, atIndex \in 0..NumViews :
    /\ mutations < MaxMutations
    /\ superview[subview] = Nil
    /\ self \notin Subtree(reactSubviews, subview)
    /\ insertReactSubview(self, subview, atIndex)
    /\ mutations' = mutations + 1
DetachChild ==
  \E self \in Views : \E subview \in Views \ {self} :
    /\ mutations < MaxMutations
    /\ Contains(reactSubviews[self], subview)
    /\ removeReactSubview(self, subview)
    /\ mutations' = mutations + 1

\* ------------------------------------------------------------ sizeThatFits
\* -sizeThatFitsMinimumSize:maximumSize: up to the scratch computation (lines
\* 344-352): clone, constraint node, the clone attached, the constraints set.
\* hc and hk are the handles the two allocations return.
scratchSetup(Y, self, minimumSize, maximumSize, hc, hk) ==
  LET Y1 == YGNodeClone(Y, YogaNodeOf(self), hc)
      Y2 == YGNodeNewWithConfig(Y1, hk)
      Y3 == YGNodeInsertChild(Y2, hk, hc, 0)
      Y4 == YGNodeStyleSet(Y3, hk, "minSize", minimumSize)
  IN  YGNodeStyleSet(Y4, hk, "maxSize", maximumSize)

\* Lines 365-367: the clone detached, both scratch nodes freed.
scratchTeardown(Y, hc, hk) ==
  YGNodeFree(YGNodeFree(YGNodeRemoveChild(Y, hk, hc), hk), hc)

\* The measurement computed on the view's own solver node, with no scratch nodes.
sizeThatFitsInPlace(self, minimumSize, maximumSize, raises) ==
  /\ \E Z \in {YGNodeCalculateLayout(SolverState, YogaNodeOf(self), <<Undefined, Undefined>>,
                                      layoutMetrics[self].layoutDirection, FALSE)} :
       /\ measuredSize' = Z.layout[YogaNodeOf(self)].frame.size
       /\ SetSolverState(Z)
  /\ lastCall' = [op |-> "sizeThatFits"]
  /\ UNCHANGED <<reactSubviews, superview, layoutMetrics, affectedShadowViews,
                 passTrace, repeatPass, mutations, queryVars, metaVars, extVars>>

\* -sizeThatFitsMinimumSize:maximumSize:; raises says whether the scratch
\* computation (line 354) raises instead of returning.
sizeThatFits(self, minimumSize, maximumSize, raises) ==
  LET hc == MaxOf(LiveHandles) + 1
      hk == hc + 1
      dir == layoutMetrics[self].layoutDirection
  IN  /\ \E Y \in {scratchSetup(SolverState, self, minimumSize, maximumSize, hc, hk)} :
           IF raises
             THEN /\ Cardinality(LiveHandles) + 2 <= NumViews + MaxLeaked
                  /\ SetSolverState(Y)
                  /\ UNCHANGED measuredSize
             ELSE \E Z \in {YGNodeCalculateLayout(Y, hk, <<Undefined, Undefined>>, dir, FALSE)} :
                    /\ measuredSize' = Z.layout[hk].frame.size
                    /\ SetSolverState(scratchTeardown(Z, hc, hk))
      /\ lastCall' = [op |-> "sizeThatFits"]
      /\ UNCHANGED <<reactSubviews, superview, layoutMetrics, affectedShadowViews,
                     passTrace, repeatPass, mutations, queryVars, metaVars, extVars>>

\* The views measured standalone: one with a parent and a child, and a leaf.
MeasuredViews == {2, 3}
SizeThatFits == \E self \in MeasuredViews, minimumSize \in MinimumSizes, maximumSize \in MaximumSizes,
                   raises \in BOOLEAN :
                  sizeThatFits(self, minimumSize, maximumSize, raises)

\* ------------------------------------------------- the layout specification
RECURSIVE SortedSeq(_, _)
SortedSeq(S, desc) ==
  IF S = {} THEN <<>>
  ELSE LET m == CHOOSE x \in S : \A y \in S : IF desc THEN x >= y ELSE x <= y
       IN  <<m>> \o SortedSeq(S \ {m}, desc)

RECURSIVE ReachesNil(_, _, _)
ReachesNil(par, v, k) ==
  \/ v = Nil
  \/ (k > 0 /\ ReachesNil(par, par[v], k - 1))

\* The parent functions of the trees (forests) over the views that keep Root a root.
Forests == {par \in [Views -> Views \cup {Nil}] :
              par[Root] = Nil /\ \A v \in Views : ReachesNil(par, v, NumViews)}

\* A state the operations above reach from construction: the views attached as a
\* forest, every view's offsets set, nothing computed yet.
InitOffset(v) == IF v = Root THEN <<0, 0>> ELSE IF v = 2 THEN <<10, 10>> ELSE <<5, 5>>

InitLayout ==
  \E par \in Forests, desc \in BOOLEAN :
   LET pos == [v \in Views |-> InitOffset(v)] IN
    /\ reactSubviews = [v \in Views |-> SortedSeq({c \in Views : par[c] = v}, desc)]
    /\ superview = par
    /\ yogaChildren = [v \in Views |-> SortedSeq({c \in Views : par[c] = v}, desc)]
    /\ yogaOwner = par
    /\ yogaDirty = [v \in Views |-> TRUE]
    /\ yogaHasNewLayout = [v \in Views |-> TRUE]
    /\ yogaStyle = [v \in Views |-> [YGStyleNew EXCEPT !.left = pos[v][1], !.top = pos[v][2]]]
    /\ yogaLayout = [v \in Views |-> YGLayoutNew]
    /\ yogaCache = [v \in Views |-> NoCache]
    /\ InitPass

NextLayout == SetLeft \/ SetTop \/ SetDisplay \/ AttachChild \/ DetachChild \/ Layout
SpecLayout == InitLayout /\ [][NextLayout]_vars

\* A caller that inserts a view under a second parent without removing it from the
\* first, which -insertReactSubview:atIndex: accepts.
InsertAgain ==
  \E self \in Views : \E subview \in Views \ {self, Root}, atIndex \in 0..NumViews :
    /\ mutations < MaxMutations
    /\ superview[subview] \notin {Nil, self}
    /\ self \notin Subtree(reactSubviews, subview)
    /\ insertReactSubview(self, subview, atIndex)
    /\ mutations' = mutations + 1
\* -layoutWithMinimumSize:maximumSize:layoutDirection:layoutContext: taken in two
\* steps, for callers that call it while a call of it is inside the solver (from a
\* measure callback of the solver, or from a second thread).  The entry, lines
\* 263-279, tests nothing before it calls the solver; the step records the call.
enterLayout(self, minimumSize, maximumSize, layoutDirection) ==
  /\ Len(calculating) < MaxNesting
  /\ calculating' = Append(calculating, [self |-> self, minimumSize |-> minimumSize,
                                          maximumSize |-> maximumSize,
                                          layoutDirection |-> layoutDirection])
  /\ UNCHANGED <<reactSubviews, superview, treeSolverVars, solverVars, passVars, lastCall,
                 mutations, leafOnly, rootHadNewLayout, passRaised, solvedHasNewLayout,
                 phase, ancestorResult, textVars,
                 logVars>>
EnterLayout == \E minimumSize \in MinimumSizes, maximumSize \in MaximumSizes,
                  layoutDirection \in Directions :
                 enterLayout(Root, minimumSize, maximumSize, layoutDirection)
\* The innermost call that is inside the solver runs to its end.
ReturnLayout ==
  /\ calculating # <<>>
  /\ LET call == calculating[Len(calculating)]
     IN  \E revisit \in BOOLEAN :
           layoutWithMinimumSize(call.self, call.minimumSize, call.maximumSize,
                                 call.layoutDirection, revisit)
NextReentry == EnterLayout \/ ReturnLayout
SpecReentry == InitLayout /\ [][NextReentry]_vars

NextShared == InsertAgain \/ SetLeft \/ Layout
SpecShared == InitLayout /\ [][NextShared]_vars

\* -layoutWithMinimumSize:maximumSize:layoutDirection:layoutContext: taken in the
\* three steps of a pass, for a caller that calls it from one thread and makes no
\* other call until it has returned.  The entry: the call is made.
beginLayout(self, minimumSize, maximumSize, layoutDirection) ==
  /\ phase = "Idle"
  /\ calculating = <<>>
  /\ phase' = "Solving"
  /\ calculating' = <<[self |-> self, minimumSize |-> minimumSize,
                       maximumSize |-> maximumSize, layoutDirection |-> layoutDirection]>>
  /\ UNCHANGED <<reactSubviews, superview, treeSolverVars, solverVars, passVars, lastCall,
                 mutations, leafOnly, rootHadNewLayout, passRaised, solvedHasNewLayout,
                 ancestorResult, textVars,
                 logVars>>
\* Lines 268-283 with the solver's part of a step that stores where the solver left
\* off and the pass proper in the same step.
calculateLayoutApplying(revisit) ==
  /\ phase = "Solving"
  /\ LET call == calculating[Len(calculating)]
     IN  \E Y \in {solveLayout(call.self, call.minimumSize, call.maximumSize,
                               call.layoutDirection, revisit)} :
           /\ \E P \in {applyLayout(Y, call.self)} :
                /\ SetSolverState([Y EXCEPT !.hasNewLayout = P.hasNewLayout])
                /\ layoutMetrics' = P.metrics
                /\ affectedShadowViews' = P.affected
                /\ passTrace' = P.trace
                /\ passRaised' = P.raised
           /\ rootHadNewLayout' = Y.hasNewLayout[YogaNodeOf(call.self)]
           /\ solvedHasNewLayout' = [v \in Views |-> Y.hasNewLayout[YogaNodeOf(v)]]
  /\ phase' = "Applying"
  /\ UNCHANGED <<reactSubviews, superview, lastCall, repeatPass, measuredSize, queryVars,
                 metaVars, mutations, leafOnly, calculating, ancestorResult, textVars,
                 logVars>>
\* Lines 268-283: the minimum size is set and YGNodeCalculateLayout runs and returns.
calculateLayout(revisit) ==
  /\ phase = "Solving"
  /\ LET call == calculating[Len(calculating)]
     IN  \E Y \in {solveLayout(call.self, call.minimumSize, call.maximumSize,
                               call.layoutDirection, revisit)} :
           /\ SetSolverState(Y)
           /\ rootHadNewLayout' = Y.hasNewLayout[YogaNodeOf(call.self)]
           /\ solvedHasNewLayout' = [v \in Views |-> Y.hasNewLayout[YogaNodeOf(v)]]
  /\ phase' = "Applying"
  /\ UNCHANGED <<reactSubviews, superview, passVars, lastCall, mutations, leafOnly,
                 passRaised, calculating, ancestorResult, textVars,
                 logVars>>
\* Lines 285-300: the pass proper runs on what the solver computed, and the call
\* returns (or raises out of the pass).
applyCalculatedLayout ==
  /\ phase = "Applying"
  /\ LET call == calculating[Len(calculating)]
         layout == [op |-> "layout", minimumSize |-> call.minimumSize,
                    maximumSize |-> call.maximumSize,
                    layoutDirection |-> call.layoutDirection]
     IN  /\ \E P \in {applyLayout(SolverState, call.self)} :
              /\ yogaHasNewLayout' = P.hasNewLayout
              /\ layoutMetrics' = P.metrics
              /\ affectedShadowViews' = P.affected
              /\ passTrace' = P.trace
              /\ passRaised' = P.raised
         /\ repeatPass' = (lastCall = layout)
         /\ lastCall' = layout
  /\ phase' = "Idle"
  /\ calculating' = SubSeq(calculating, 1, Len(calculating) - 1)
  /\ UNCHANGED <<reactSubviews, superview, treeSolverVars, yogaStyle, yogaLayout, yogaCache,
                 measuredSize, mutations, queryVars, metaVars, leafOnly, rootHadNewLayout,
                 solvedHasNewLayout, ancestorResult, textVars,
                 logVars>>
BeginLayout == \E minimumSize \in MinimumSizes, maximumSize \in MaximumSizes,
                  layoutDirection \in Directions :
                 beginLayout(Root, minimumSize, maximumSize, layoutDirection)
CalculateLayout == \E revisit \in BOOLEAN : calculateLayout(revisit)
ApplyCalculatedLayout == applyCalculatedLayout
\* The caller changes a style between its layout calls.
SetLeftBetweenPasses == phase = "Idle" /\ \E self \in Views : setLeft(self, YGPoint(10))
NextPass == SetLeftBetweenPasses \/ BeginLayout \/ CalculateLayout \/ ApplyCalculatedLayout
\* The call is synchronous and nothing in it waits: once made, the solver runs to
\* its end and then the pass proper runs to its end.
SpecPass ==
  InitLayout /\ [][NextPass]_vars /\ WF_vars(CalculateLayout) /\ WF_vars(ApplyCalculatedLayout)

\* The layout specification with standalone measurement.
NextStandalone == SetDisplay \/ Layout \/ SizeThatFits
\* It starts from the chain Root > 2 > 3.
InitStandalone == InitLayout /\ superview = [v \in Views |-> v - 1]
SpecStandalone == InitStandalone /\ [][NextStandalone]_vars

\* ============================================================ layout properties
\* C3: a layout call on the root that repeats the previous call, constraints
\* included, with no style or tree mutation in between, ends with an empty
\* affected set and leaves every view's stored layout metrics as they were.
C3_RepeatedLayoutChangesNothing ==
  [][(lastCall.op = "layout" /\ lastCall' = lastCall)
       => (affectedShadowViews' = {} /\ layoutMetrics' = layoutMetrics)]_vars
\* A repeated call in which the solver reported the root again and the pass ran.
C3_RepeatedPassRan == lastCall.op = "layout" /\ repeatPass /\ Len(passTrace) > 0

\* C4: the absolutePosition of the context a child is laid out with is its
\* parent's absolutePosition plus the child's own frame origin, whatever siblings
\* were laid out before it.
C4_ChildContextIsParentPlusOrigin ==
  \A i \in DOMAIN passTrace :
    passTrace[i].absolutePosition =
      Add(passTrace[i].parentPosition, layoutMetrics[passTrace[i].view].frame.origin)

RECURSIVE OriginSum(_)
\* The sum of the stored frame origins of v and of its ancestors.
OriginSum(v) ==
  IF superview[v] = Nil THEN layoutMetrics[v].frame.origin
  ELSE Add(OriginSum(superview[v]), layoutMetrics[v].frame.origin)

RECURSIVE AncestorsFirst(_)
\* Every ancestor of v other than the root is the first of its parent's list.
AncestorsFirst(v) ==
  \/ superview[v] = Nil
  \/ superview[superview[v]] = Nil
  \/ /\ reactSubviews[superview[superview[v]]][1] = superview[v]
     /\ AncestorsFirst(superview[v])

\* C5: right after a layout pass, the absolutePosition a view was laid out with,
\* if each of its ancestors is the first of its parent's list, is the sum of the
\* frame origins of the root, its ancestors and itself.
C5_AbsolutePositionIsOriginSum ==
  lastCall.op = "layout" =>
    \A i \in DOMAIN passTrace :
      AncestorsFirst(passTrace[i].view) =>
        passTrace[i].absolutePosition = OriginSum(passTrace[i].view)

\* ======================================================= sizeThatFits properties
\* C6: a sizeThatFits call that returns leaves, for every view, the stored layout
\* metrics, the solver's dirty flag, has-new-layout flag, style and child list,
\* and the affected set, as they were.
LiveTree ==
  [v \in Views |-> [metrics |-> layoutMetrics[v], dirty |-> yogaDirty[YogaNodeOf(v)],
                    hasNewLayout |-> yogaHasNewLayout[YogaNodeOf(v)],
                    style |-> yogaStyle[YogaNodeOf(v)],
                    children |-> yogaChildren[YogaNodeOf(v)]]]
C6_SizeThatFitsKeepsLiveTree ==
  [][lastCall'.op = "sizeThatFits"
       => (LiveTree' = LiveTree /\ affectedShadowViews' = affectedShadowViews)]_vars
\* A measurement of a view that has a child and pending solver state, which
\* returned a size.
C6_MeasuredWithPendingState ==
  /\ lastCall.op = "sizeThatFits"
  /\ measuredSize # <<0, 0>>
  /\ \E v \in MeasuredViews : yogaChildren[YogaNodeOf(v)] # <<>> /\ yogaDirty[YogaNodeOf(v)]

\* C7: the solver handles that are live after a sizeThatFits call, whether it
\* returns or raises, are those live before it.
C7_SizeThatFitsReleasesHandles ==
  [][lastCall'.op = "sizeThatFits" => LiveHandles' = LiveHandles]_vars

\* ================================================================ hit testing
\* The reactTag of a view.
reactTag(self) == self

\* CGRectContainsPoint: the minimum edges belong to the rectangle, the maximum do not.
CGRectContainsPoint(rect, point) ==
  /\ rect.origin[1] <= point[1] /\ point[1] < rect.origin[1] + rect.size[1]
  /\ rect.origin[2] <= point[2] /\ point[2] < rect.origin[2] + rect.size[2]

RECURSIVE reactTagAtPointUntranslated(_, _, _)
reactTagAtPointUntranslated(self, point, i) ==
  IF i > Len(reactSubviews[self]) THEN reactTag(self)
  ELSE LET shadowView == reactSubviews[self][i]
       IN  IF CGRectContainsPoint(layoutMetrics[shadowView].frame, point)
             THEN reactTagAtPointUntranslated(shadowView, point, 1)
             ELSE reactTagAtPointUntranslated(self, point, i + 1)

RECURSIVE reactTagAtPointFrom(_, _, _)
\* -reactTagAtPoint: the loop over _reactSubviews from the i-th on.
reactTagAtPointFrom(self, point, i) ==
  IF i > Len(reactSubviews[self]) THEN reactTag(self)
  ELSE LET shadowView == reactSubviews[self][i]
           origin == layoutMetrics[shadowView].frame.origin
           relativePoint == <<point[1] - origin[1], point[2] - origin[2]>>
       IN  IF CGRectContainsPoint(layoutMetrics[shadowView].frame, point)
             THEN reactTagAtPointFrom(shadowView, relativePoint, 1)
             ELSE reactTagAtPointFrom(self, point, i + 1)

\* -reactTagAtPoint:
reactTagAtPoint(self, point) ==
  /\ hitResult' = [op |-> "reactTagAtPoint", self |-> self, point |-> point,
                   tag |-> reactTagAtPointFrom(self, point, 1)]
  /\ lastCall' = [op |-> "reactTagAtPoint"]
  /\ UNCHANGED <<reactSubviews, superview, treeSolverVars, solverVars, layoutMetrics,
                 affectedShadowViews, passTrace, repeatPass, measuredSize, mutations,
                 intrinsicContentSize, hasMeasureFunc, measureResult, metaVars, extVars>>

HitCoords == {2, 7, 12}
ReactTagAtPoint == \E self \in Views, x \in HitCoords, y \in HitCoords :
                     reactTagAtPoint(self, <<x, y>>)

\* The frames a layout pass has stored when hit testing starts.
HitFrames == {[origin |-> <<0, 0>>, size |-> <<10, 10>>],
              [origin |-> <<5, 5>>, size |-> <<10, 10>>],
              [origin |-> <<0, 0>>, size |-> <<5, 5>>]}
RootFrame == [origin |-> <<0, 0>>, size |-> <<20, 20>>]

\* A laid-out tree: the views attached as a forest, every view with a stored frame.
InitHit ==
  \E par \in Forests, desc \in BOOLEAN, frames \in [Views \ {Root} -> HitFrames] :
    /\ reactSubviews = [v \in Views |-> SortedSeq({c \in Views : par[c] = v}, desc)]
    /\ superview = par
    /\ yogaChildren = [v \in Views |-> SortedSeq({c \in Views : par[c] = v}, desc)]
    /\ yogaOwner = par
    /\ yogaDirty = [v \in Views |-> FALSE]
    /\ yogaHasNewLayout = [v \in Views |-> FALSE]
    /\ yogaStyle = [v \in Views |-> YGStyleNew]
    /\ yogaLayout = [v \in Views |-> [YGLayoutNew EXCEPT
                        !.frame = IF v = Root THEN RootFrame ELSE frames[v]]]
    /\ yogaCache = [v \in Views |-> NoCache]
    /\ layoutMetrics = [v \in Views |-> RCTLayoutMetricsFromYogaNode(SolverState, YogaNodeOf(v))]
    /\ doLeftAndRightSwapInRTL = FALSE
    /\ InitMetaProps
    /\ InitContext
    /\ InitTypes
    /\ InitLogIdle
SpecHit == InitHit /\ [][ReactTagAtPoint]_vars

\* C8: reactTagAtPoint returns what it returns on the first child, in list order,
\* whose stored frame contains the point, called with the point less that child's
\* frame origin; the view's own tag when no child's frame contains the point.
RECURSIVE HitTag(_, _)
HitTag(v, pt) ==
  LET hits == {i \in 1..Len(reactSubviews[v]) :
                 CGRectContainsPoint(layoutMetrics[reactSubviews[v][i]].frame, pt)}
  IN  IF hits = {} THEN reactTag(v)
      ELSE LET first == CHOOSE i \in hits : \A j \in hits : i <= j
               o == layoutMetrics[reactSubviews[v][first]].frame.origin
           IN  HitTag(reactSubviews[v][first], <<pt[1] - o[1], pt[2] - o[2]>>)
C8_HitTestFirstChildInListOrder ==
  hitResult.op = "reactTagAtPoint" => hitResult.tag = HitTag(hitResult.self, hitResult.point)
\* Two siblings whose frames both contain the point: the earlier one answered.
C8_OverlappingSiblingsHit ==
  /\ hitResult.op = "reactTagAtPoint"
  /\ Len(reactSubviews[hitResult.self]) >= 2
  /\ \A i \in 1..2 : CGRectContainsPoint(layoutMetrics[reactSubviews[hitResult.self][i]].frame,
                                         hitResult.point)
  /\ hitResult.tag = reactTag(reactSubviews[hitResult.self][1])

\* ------------------------------------------------------- ancestor queries
\* CGRectNull, which no rectangle with an origin and a size equals.
CGRectNull == [null |-> TRUE]

RECURSIVE AncestorWalk(_, _, _, _)
\* The loop of lines 169-173 and 183-185: from shadowView up the _superview
\* references until nil or the ancestor, adding the frame origins passed.  A loop
\* that has passed every view without ending goes round a cycle of references and
\* never ends: the call does not return.
AncestorWalk(shadowView, ancestor, offset, steps) ==
  IF shadowView = Nil \/ shadowView = ancestor
    THEN [returns |-> TRUE, shadowView |-> shadowView, offset |-> offset]
  ELSE IF steps = 0
    THEN [returns |-> FALSE, shadowView |-> shadowView, offset |-> offset]
  ELSE AncestorWalk(superview[shadowView], ancestor,
                    Add(offset, layoutMetrics[shadowView].frame.origin), steps - 1)

\* What -viewIsDescendantOf: answers, when it returns.
viewIsDescendantOfValue(self, ancestor) ==
  LET walk == AncestorWalk(self, ancestor, <<0, 0>>, NumViews)
  IN  [returns |-> walk.returns, result |-> walk.returns /\ ancestor = walk.shadowView]

\* What -measureLayoutRelativeToAncestor: answers, when it returns.
measureLayoutRelativeToAncestorValue(self, ancestor) ==
  LET walk == AncestorWalk(self, ancestor, <<0, 0>>, NumViews)
  IN  [returns |-> walk.returns,
       result |-> IF ~walk.returns \/ ancestor # walk.shadowView THEN CGRectNull
                  ELSE [origin |-> walk.offset, size |-> layoutMetrics[self].frame.size]]

AncestorQuery(op, self, ancestor, answer) ==
  /\ ancestorResult' = [op |-> op, self |-> self, ancestor |-> ancestor,
                        returns |-> answer.returns, result |-> answer.result]
  /\ lastCall' = [op |-> op]
  /\ UNCHANGED <<reactSubviews, superview, treeSolverVars, solverVars, passVars, mutations,
                 leafOnly, rootHadNewLayout, passRaised, solvedHasNewLayout, phase,
                 calculating, textVars, logVars>>

\* -viewIsDescendantOf:
viewIsDescendantOf(self, ancestor) ==
  AncestorQuery("viewIsDescendantOf", self, ancestor, viewIsDescendantOfValue(self, ancestor))
\* -measureLayoutRelativeToAncestor:
measureLayoutRelativeToAncestor(self, ancestor) ==
  AncestorQuery("measureLayoutRelativeToAncestor", self, ancestor,
                measureLayoutRelativeToAncestorValue(self, ancestor))

ViewIsDescendantOf == \E self \in Views, ancestor \in Views \cup {Nil} :
                        viewIsDescendantOf(self, ancestor)
MeasureLayoutRelativeToAncestor == \E self \in Views, ancestor \in Views \cup {Nil} :
                                     measureLayoutRelativeToAncestor(self, ancestor)

\* A laid-out forest: the views attached as a forest, each holding the frame a pass
\* stored.
StoredFrame(v) == [origin |-> <<2 ^ (v - 1), 10 * (2 ^ (v - 1))>>, size |-> <<20 + v, 30 + v>>]
InitAncestor ==
  \E par \in Forests :
    /\ reactSubviews = [v \in Views |-> SortedSeq({c \in Views : par[c] = v}, FALSE)]
    /\ superview = par
    /\ yogaChildren = [v \in Views |-> SortedSeq({c \in Views : par[c] = v}, FALSE)]
    /\ yogaOwner = par
    /\ yogaDirty = [v \in Views |-> FALSE]
    /\ yogaHasNewLayout = [v \in Views |-> FALSE]
    /\ yogaStyle = [v \in Views |-> YGStyleNew]
    /\ yogaLayout = [v \in Views |-> [YGLayoutNew EXCEPT !.frame = StoredFrame(v)]]
    /\ yogaCache = [v \in Views |-> NoCache]
    /\ layoutMetrics = [v \in Views |-> RCTLayoutMetricsFromYogaNode(SolverState, YogaNodeOf(v))]
    /\ doLeftAndRightSwapInRTL = FALSE
    /\ InitMetaProps
    /\ InitContext
    /\ InitTypes
    /\ InitLogIdle
\* A caller that inserts any view under any other at the end of its list and removes
\* any view from any other, both of which the operations accept.
AppendAnyChild ==
  \E self \in Views : \E subview \in Views \ {self} :
    /\ mutations < MaxMutations
    /\ insertReactSubview(self, subview, Len(reactSubviews[self]))
    /\ mutations' = mutations + 1
RemoveAnyChild ==
  \E self \in Views : \E subview \in Views \ {self} :
    /\ mutations < MaxMutations
    /\ removeReactSubview(self, subview)
    /\ mutations' = mutations + 1
NextAncestor ==
  AppendAnyChild \/ RemoveAnyChild \/ ViewIsDescendantOf \/ MeasureLayoutRelativeToAncestor
SpecAncestor == InitAncestor /\ [][NextAncestor]_vars

\* ====================================================== intrinsic content size
YGMeasureModes == {"Undefined", "Exactly", "AtMost"}

\* One axis of RCTShadowViewMeasure without the replacement of negative values.
MeasureAxisUnclamped(intrinsic, size, mode) ==
  CASE mode = "Undefined" -> intrinsic
    [] mode = "Exactly" -> size
    [] mode = "AtMost" -> Min(size, intrinsic)
\* One axis of RCTShadowViewMeasure: the MAX(0, _) of the intrinsic value, then
\* the switch on the mode.
MeasureAxis(intrinsic, size, mode) ==
  LET clamped == Max(0, intrinsic)
  IN  CASE mode = "Undefined" -> clamped
        [] mode = "Exactly" -> size
        [] mode = "AtMost" -> Min(size, clamped)

\* RCTShadowViewMeasure
RCTShadowViewMeasure(shadowView, width, widthMode, height, heightMode) ==
  <<MeasureAxis(intrinsicContentSize[shadowView][1], width, widthMode),
    MeasureAxis(intrinsicContentSize[shadowView][2], height, heightMode)>>

\* The solver calls the measure function of a node that has one.
Measure ==
  \E self \in MeasuredViews, width \in {0, 40, 200}, height \in {0, 40, 200},
     widthMode \in YGMeasureModes, heightMode \in YGMeasureModes :
    /\ hasMeasureFunc[self]
    /\ measureResult' = [op |-> "measure", self |-> self, width |-> width,
                         widthMode |-> widthMode, height |-> height, heightMode |-> heightMode,
                         result |-> RCTShadowViewMeasure(self, width, widthMode, height, heightMode)]
    /\ lastCall' = [op |-> "measure"]
    /\ UNCHANGED <<reactSubviews, superview, treeSolverVars, solverVars, layoutMetrics,
                   affectedShadowViews, passTrace, repeatPass, measuredSize, mutations,
                   hitResult, intrinsicContentSize, hasMeasureFunc, metaVars, extVars>>

\* -setIntrinsicContentSize: without the early return of lines 611-613.
setIntrinsicContentSizeUnguarded(self, size) ==
  /\ intrinsicContentSize' = [intrinsicContentSize EXCEPT ![self] = size]
  /\ hasMeasureFunc' = [hasMeasureFunc EXCEPT ![self] =
       size # <<UIViewNoIntrinsicMetric, UIViewNoIntrinsicMetric>>]
  /\ yogaDirty' = MarkDirtyAndPropogate(yogaDirty, yogaOwner, YogaNodeOf(self))
  /\ lastCall' = [op |-> "setIntrinsicContentSize", self |-> self, size |-> size]
  /\ UNCHANGED <<reactSubviews, superview, yogaChildren, yogaOwner, solverVars, layoutMetrics,
                 affectedShadowViews, passTrace, repeatPass, measuredSize, mutations,
                 hitResult, measureResult, metaVars, extVars>>
\* -setIntrinsicContentSize:
setIntrinsicContentSize(self, size) ==
  /\ IF intrinsicContentSize[self] = size
       THEN UNCHANGED <<intrinsicContentSize, hasMeasureFunc, yogaDirty>>
       ELSE /\ intrinsicContentSize' = [intrinsicContentSize EXCEPT ![self] = size]
            /\ hasMeasureFunc' = [hasMeasureFunc EXCEPT ![self] =
                 size # <<UIViewNoIntrinsicMetric, UIViewNoIntrinsicMetric>>]
            /\ yogaDirty' = MarkDirtyAndPropogate(yogaDirty, yogaOwner, YogaNodeOf(self))
  /\ lastCall' = [op |-> "setIntrinsicContentSize", self |-> self, size |-> size]
  /\ UNCHANGED <<reactSubviews, superview, yogaChildren, yogaOwner, solverVars, layoutMetrics,
                 affectedShadowViews, passTrace, repeatPass, measuredSize, mutations,
                 hitResult, measureResult, metaVars, extVars>>

IntrinsicSizes == {<<UIViewNoIntrinsicMetric, UIViewNoIntrinsicMetric>>, <<100, 50>>,
                   <<UIViewNoIntrinsicMetric, 50>>}
SetIntrinsicContentSize == \E self \in MeasuredViews, size \in IntrinsicSizes :
                             setIntrinsicContentSize(self, size)

NextMeasure == SetIntrinsicContentSize \/ Measure
SpecMeasure == InitTree /\ [][NextMeasure]_vars

\* C9: the measure callback computes each axis from max(0, intrinsic): mode
\* Undefined gives that value, Exactly the offered size, AtMost the smaller of the
\* two; with a non-negative offered size the result is never negative.
ExpectedAxis(intrinsic, offered, mode) ==
  LET c == IF intrinsic < 0 THEN 0 ELSE intrinsic
  IN  IF mode = "Undefined" THEN c
      ELSE IF mode = "Exactly" THEN offered
      ELSE IF offered <= c THEN offered ELSE c
C9_MeasureModes ==
  [][lastCall'.op = "measure" =>
       LET r == measureResult'
           i == intrinsicContentSize[r.self]
       IN  /\ r.result[1] = ExpectedAxis(i[1], r.width, r.widthMode)
           /\ r.result[2] = ExpectedAxis(i[2], r.height, r.heightMode)
           /\ (r.width >= 0 => r.result[1] >= 0)
           /\ (r.height >= 0 => r.result[2] >= 0)]_vars
\* A measurement with an unset intrinsic width and a capped height.
C9_MeasuredUnsetWidth ==
  /\ measureResult.op = "measure"
  /\ intrinsicContentSize[measureResult.self] = <<UIViewNoIntrinsicMetric, 50>>
  /\ measureResult.widthMode = "Undefined" /\ measureResult.heightMode = "AtMost"
  /\ measureResult.height = 200
  /\ measureResult.result = <<0, 50>>

\* ============================================================ box-model props
\* The meta prop the macros write to an edge when no mirroring applies.
MetaPropOfEdge(e) ==
  CASE e = "Left" -> "LEFT" [] e = "Top" -> "TOP" [] e = "Right" -> "RIGHT"
    [] e = "Bottom" -> "BOTTOM" [] e = "Start" -> "START" [] e = "End" -> "END"
    [] e = "Horizontal" -> "HORIZONTAL" [] e = "Vertical" -> "VERTICAL" [] e = "All" -> "ALL"

YGFloatIsUndefined(x) == x = Undefined

\* RCTProcessMetaPropsPadding with the mirroring branch taken whatever the setting.
RCTProcessMetaPropsPaddingMirrored(metaProps, edges, swap) ==
  LET start == IF metaProps["START"].unit = "undefined" THEN metaProps["LEFT"] ELSE metaProps["START"]
      end   == IF metaProps["END"].unit = "undefined" THEN metaProps["RIGHT"] ELSE metaProps["END"]
  IN  [e \in YGEdges |->
        IF e \in {"Left", "Right"}
          THEN IF ~TRUE THEN RCT_SET_YGVALUE(metaProps[MetaPropOfEdge(e)]) ELSE edges[e]
        ELSE IF e = "Start"
          THEN IF ~TRUE THEN RCT_SET_YGVALUE(metaProps["START"]) ELSE RCT_SET_YGVALUE(start)
        ELSE IF e = "End"
          THEN IF ~TRUE THEN RCT_SET_YGVALUE(metaProps["END"]) ELSE RCT_SET_YGVALUE(end)
        ELSE RCT_SET_YGVALUE(metaProps[MetaPropOfEdge(e)])]

\* RCTProcessMetaPropsPadding: the padding of the solver node's edges after the
\* call, edges being the padding before it.
RCTProcessMetaPropsPadding(metaProps, edges, swap) ==
  LET start == IF metaProps["START"].unit = "undefined" THEN metaProps["LEFT"] ELSE metaProps["START"]
      end   == IF metaProps["END"].unit = "undefined" THEN metaProps["RIGHT"] ELSE metaProps["END"]
  IN  [e \in YGEdges |->
        IF e \in {"Left", "Right"}
          THEN IF ~swap THEN RCT_SET_YGVALUE(metaProps[MetaPropOfEdge(e)]) ELSE edges[e]
        ELSE IF e = "Start"
          THEN IF ~swap THEN RCT_SET_YGVALUE(metaProps["START"]) ELSE RCT_SET_YGVALUE(start)
        ELSE IF e = "End"
          THEN IF ~swap THEN RCT_SET_YGVALUE(metaProps["END"]) ELSE RCT_SET_YGVALUE(end)
        ELSE RCT_SET_YGVALUE(metaProps[MetaPropOfEdge(e)])]

\* RCTProcessMetaPropsMargin with left and right taking priority over start and end.
RCTProcessMetaPropsMarginLeftFirst(metaProps, edges, swap) ==
  LET start == IF metaProps["LEFT"].unit = "undefined" THEN metaProps["START"] ELSE metaProps["LEFT"]
      end   == IF metaProps["RIGHT"].unit = "undefined" THEN metaProps["END"] ELSE metaProps["RIGHT"]
  IN  [e \in YGEdges |->
        IF e \in {"Left", "Right"}
          THEN IF ~swap THEN RCT_SET_YGVALUE_AUTO(metaProps[MetaPropOfEdge(e)]) ELSE edges[e]
        ELSE IF e = "Start"
          THEN IF ~swap THEN RCT_SET_YGVALUE_AUTO(metaProps["START"]) ELSE RCT_SET_YGVALUE_AUTO(start)
        ELSE IF e = "End"
          THEN IF ~swap THEN RCT_SET_YGVALUE_AUTO(metaProps["END"]) ELSE RCT_SET_YGVALUE_AUTO(end)
        ELSE RCT_SET_YGVALUE_AUTO(metaProps[MetaPropOfEdge(e)])]

\* RCTProcessMetaPropsMargin
RCTProcessMetaPropsMargin(metaProps, edges, swap) ==
  LET start == IF metaProps["START"].unit = "undefined" THEN metaProps["LEFT"] ELSE metaProps["START"]
      end   == IF metaProps["END"].unit = "undefined" THEN metaProps["RIGHT"] ELSE metaProps["END"]
  IN  [e \in YGEdges |->
        IF e \in {"Left", "Right"}
          THEN IF ~swap THEN RCT_SET_YGVALUE_AUTO(metaProps[MetaPropOfEdge(e)]) ELSE edges[e]
        ELSE IF e = "Start"
          THEN IF ~swap THEN RCT_SET_YGVALUE_AUTO(metaProps["START"]) ELSE RCT_SET_YGVALUE_AUTO(start)
        ELSE IF e = "End"
          THEN IF ~swap THEN RCT_SET_YGVALUE_AUTO(metaProps["END"]) ELSE RCT_SET_YGVALUE_AUTO(end)
        ELSE RCT_SET_YGVALUE_AUTO(metaProps[MetaPropOfEdge(e)])]

\* RCTProcessMetaPropsBorder with left and right taking priority over start and end.
RCTProcessMetaPropsBorderLeftFirst(metaProps, edges, swap) ==
  LET start == IF YGFloatIsUndefined(metaProps["LEFT"].value) THEN metaProps["START"] ELSE metaProps["LEFT"]
      end   == IF YGFloatIsUndefined(metaProps["RIGHT"].value) THEN metaProps["END"] ELSE metaProps["RIGHT"]
  IN  [e \in YGEdges |->
        IF e \in {"Left", "Right"}
          THEN IF ~swap THEN metaProps[MetaPropOfEdge(e)].value ELSE edges[e]
        ELSE IF e = "Start"
          THEN IF ~swap THEN metaProps["START"].value ELSE start.value
        ELSE IF e = "End"
          THEN IF ~swap THEN metaProps["END"].value ELSE end.value
        ELSE metaProps[MetaPropOfEdge(e)].value]

\* RCTProcessMetaPropsBorder
RCTProcessMetaPropsBorder(metaProps, edges, swap) ==
  LET start == IF YGFloatIsUndefined(metaProps["START"].value) THEN metaProps["LEFT"] ELSE metaProps["START"]
      end   == IF YGFloatIsUndefined(metaProps["END"].value) THEN metaProps["RIGHT"] ELSE metaProps["END"]
  IN  [e \in YGEdges |->
        IF e \in {"Left", "Right"}
          THEN IF ~swap THEN metaProps[MetaPropOfEdge(e)].value ELSE edges[e]
        ELSE IF e = "Start"
          THEN IF ~swap THEN metaProps["START"].value ELSE start.value
        ELSE IF e = "End"
          THEN IF ~swap THEN metaProps["END"].value ELSE end.value
        ELSE metaProps[MetaPropOfEdge(e)].value]

\* The resolvers -didSetProps: calls, in the order of its three if statements.
ResolverRuns(flags) ==
  (IF flags.padding THEN <<"padding">> ELSE <<>>)
    \o (IF flags.margin THEN <<"margin">> ELSE <<>>)
    \o (IF flags.border THEN <<"border">> ELSE <<>>)

\* -didSetProps: with the three resolvers called whatever the flags are.
didSetPropsUnconditionally(self) ==
  LET swap == doLeftAndRightSwapInRTL
      padding == IF TRUE
                   THEN RCTProcessMetaPropsPadding(paddingMetaProps[self], yogaPadding[self], swap)
                   ELSE yogaPadding[self]
      margin  == IF TRUE
                   THEN RCTProcessMetaPropsMargin(marginMetaProps[self], yogaMargin[self], swap)
                   ELSE yogaMargin[self]
      border  == IF TRUE
                   THEN RCTProcessMetaPropsBorder(borderMetaProps[self], yogaBorder[self], swap)
                   ELSE yogaBorder[self]
  IN  /\ yogaPadding' = [yogaPadding EXCEPT ![self] = padding]
      /\ yogaMargin' = [yogaMargin EXCEPT ![self] = margin]
      /\ yogaBorder' = [yogaBorder EXCEPT ![self] = border]
      /\ yogaDirty' = IF padding # yogaPadding[self] \/ margin # yogaMargin[self]
                         \/ border # yogaBorder[self]
                        THEN MarkDirtyAndPropogate(yogaDirty, yogaOwner, YogaNodeOf(self))
                        ELSE yogaDirty
      /\ recompute' = [recompute EXCEPT ![self] =
                         [padding |-> FALSE, margin |-> FALSE, border |-> FALSE]]
      /\ lastCall' = [op |-> "didSetProps", self |-> self,
                      resolverRuns |-> <<"padding", "margin", "border">>]
      /\ UNCHANGED <<reactSubviews, superview, yogaChildren, yogaOwner, solverVars, layoutMetrics,
                     affectedShadowViews, passTrace, repeatPass, measuredSize, mutations,
                     queryVars, doLeftAndRightSwapInRTL, paddingMetaProps, marginMetaProps,
                     borderMetaProps, extVars>>

\* -didSetProps:
didSetProps(self) ==
  LET swap == doLeftAndRightSwapInRTL
      padding == IF recompute[self].padding
                   THEN RCTProcessMetaPropsPadding(paddingMetaProps[self], yogaPadding[self], swap)
                   ELSE yogaPadding[self]
      margin  == IF recompute[self].margin
                   THEN RCTProcessMetaPropsMargin(marginMetaProps[self], yogaMargin[self], swap)
                   ELSE yogaMargin[self]
      border  == IF recompute[self].border
                   THEN RCTProcessMetaPropsBorder(borderMetaProps[self], yogaBorder[self], swap)
                   ELSE yogaBorder[self]
  IN  /\ yogaPadding' = [yogaPadding EXCEPT ![self] = padding]
      /\ yogaMargin' = [yogaMargin EXCEPT ![self] = margin]
      /\ yogaBorder' = [yogaBorder EXCEPT ![self] = border]
      /\ yogaDirty' = IF padding # yogaPadding[self] \/ margin # yogaMargin[self]
                         \/ border # yogaBorder[self]
                        THEN MarkDirtyAndPropogate(yogaDirty, yogaOwner, YogaNodeOf(self))
                        ELSE yogaDirty
      /\ recompute' = [recompute EXCEPT ![self] =
                         [padding |-> FALSE, margin |-> FALSE, border |-> FALSE]]
      /\ lastCall' = [op |-> "didSetProps", self |-> self,
                      resolverRuns |-> ResolverRuns(recompute[self])]
      /\ UNCHANGED <<reactSubviews, superview, yogaChildren, yogaOwner, solverVars, layoutMetrics,
                     affectedShadowViews, passTrace, repeatPass, measuredSize, mutations,
                     queryVars, doLeftAndRightSwapInRTL, paddingMetaProps, marginMetaProps,
                     borderMetaProps, extVars>>

\* What a setter of a meta prop leaves alone.
MetaSetterFrame ==
  /\ mutations < MaxPropWrites
  /\ mutations' = mutations + 1
  /\ UNCHANGED <<reactSubviews, superview, treeSolverVars, solverVars, layoutMetrics,
                 affectedShadowViews, passTrace, repeatPass, measuredSize, queryVars,
                 doLeftAndRightSwapInRTL, yogaPadding, yogaMargin, yogaBorder, extVars>>

\* RCT_PADDING_PROPERTY: -setPadding<Prop>:
setPadding(self, metaProp, value) ==
  /\ paddingMetaProps' = [paddingMetaProps EXCEPT ![self][metaProp] = value]
  /\ recompute' = [recompute EXCEPT ![self].padding = TRUE]
  /\ lastCall' = [op |-> "setPadding", self |-> self]
  /\ UNCHANGED <<marginMetaProps, borderMetaProps>>
  /\ MetaSetterFrame
\* RCT_MARGIN_PROPERTY: -setMargin<Prop>:
setMargin(self, metaProp, value) ==
  /\ marginMetaProps' = [marginMetaProps EXCEPT ![self][metaProp] = value]
  /\ recompute' = [recompute EXCEPT ![self].margin = TRUE]
  /\ lastCall' = [op |-> "setMargin", self |-> self]
  /\ UNCHANGED <<paddingMetaProps, borderMetaProps>>
  /\ MetaSetterFrame
\* RCT_BORDER_PROPERTY: -setBorder<Prop>Width:
setBorderWidth(self, metaProp, value) ==
  /\ borderMetaProps' = [borderMetaProps EXCEPT ![self][metaProp].value = value]
  /\ recompute' = [recompute EXCEPT ![self].border = TRUE]
  /\ lastCall' = [op |-> "setBorderWidth", self |-> self]
  /\ UNCHANGED <<paddingMetaProps, marginMetaProps>>
  /\ MetaSetterFrame

\* The view whose props are set, the props and the values they are set to.
MetaViews == {Root}
HorizontalProps == {"START", "END", "LEFT", "RIGHT"}
SetterProps == HorizontalProps \cup {"ALL"}
SetterValues == {[unit |-> "auto", value |-> Undefined], YGPoint(10)}
SetPadding == \E self \in MetaViews, metaProp \in SetterProps, value \in SetterValues :
                setPadding(self, metaProp, value)
SetMargin == \E self \in MetaViews, metaProp \in SetterProps, value \in SetterValues :
               setMargin(self, metaProp, value)
SetBorderWidth == \E self \in MetaViews, metaProp \in SetterProps, value \in {10, Undefined} :
                    setBorderWidth(self, metaProp, value)
DidSetProps == \E self \in MetaViews : didSetProps(self)

\* Views just constructed, the setters of the four horizontal props of one group
\* called on the root, each with undefined or 5 points; mirroring on or off.
InitMeta ==
  \E group \in {"padding", "margin", "border"},
     vals \in [HorizontalProps -> {YGValueUndefined, YGPoint(5)}] :
    LET props(g) == [v \in Views |-> [m \in MetaProps |->
                       IF v = Root /\ g = group /\ m \in HorizontalProps
                         THEN IF g = "border" THEN [YGValueUndefined EXCEPT !.value = vals[m].value]
                              ELSE vals[m]
                         ELSE YGValueUndefined]]
    IN  /\ paddingMetaProps = props("padding")
        /\ marginMetaProps = props("margin")
        /\ borderMetaProps = props("border")
        /\ recompute = [v \in Views |-> [padding |-> v = Root /\ group = "padding",
                                         margin |-> v = Root /\ group = "margin",
                                         border |-> v = Root /\ group = "border"]]
        /\ yogaPadding = [v \in Views |-> [e \in YGEdges |-> YGValueUndefined]]
        /\ yogaMargin = [v \in Views |-> [e \in YGEdges |-> YGValueUndefined]]
        /\ yogaBorder = [v \in Views |-> [e \in YGEdges |-> Undefined]]
        /\ doLeftAndRightSwapInRTL \in BOOLEAN
        /\ layoutMetrics = [v \in Views |-> LayoutMetricsZero]
        /\ InitDetached
        /\ InitContext
        /\ InitTypes
        /\ InitLogIdle

NextMeta == SetPadding \/ SetMargin \/ SetBorderWidth \/ DidSetProps
SpecMeta == InitMeta /\ [][NextMeta]_vars

\* The three groups set alike: each horizontal prop of the root left unset, set to a
\* number of points that tells the props apart, or set to auto (for the border
\* width, which has no auto, to the number), in all three groups; nothing committed.
PropPoints(metaProp) == CASE metaProp = "START" -> 1 [] metaProp = "END" -> 2
                          [] metaProp = "LEFT" -> 3 [] metaProp = "RIGHT" -> 4
PropSettings == {"unset", "point", "auto"}
InitResolve ==
  \E pattern \in [HorizontalProps -> PropSettings] :
    LET ygvalue(m) == CASE pattern[m] = "unset" -> YGValueUndefined
                        [] pattern[m] = "point" -> YGPoint(PropPoints(m))
                        [] pattern[m] = "auto" -> [unit |-> "auto", value |-> Undefined]
        float(m) == IF pattern[m] = "unset" THEN YGValueUndefined
                    ELSE [YGValueUndefined EXCEPT !.value = PropPoints(m)]
        props(of(_)) == [v \in Views |-> [m \in MetaProps |->
                          IF v = Root /\ m \in HorizontalProps THEN of(m) ELSE YGValueUndefined]]
    IN  /\ paddingMetaProps = props(ygvalue)
        /\ marginMetaProps = props(ygvalue)
        /\ borderMetaProps = props(float)
        /\ recompute = [v \in Views |-> [padding |-> v = Root, margin |-> v = Root,
                                         border |-> v = Root]]
        /\ yogaPadding = [v \in Views |-> [e \in YGEdges |-> YGValueUndefined]]
        /\ yogaMargin = [v \in Views |-> [e \in YGEdges |-> YGValueUndefined]]
        /\ yogaBorder = [v \in Views |-> [e \in YGEdges |-> Undefined]]
        /\ doLeftAndRightSwapInRTL \in BOOLEAN
        /\ layoutMetrics = [v \in Views |-> LayoutMetricsZero]
        /\ InitDetached
        /\ InitContext
        /\ InitTypes
        /\ InitLogIdle
SpecResolve == InitResolve /\ [][DidSetProps]_vars

\* C10: with mirroring disabled, didSetProps writes, for each group it commits,
\* the start, end, left and right meta values to the solver's Start, End, Left
\* and Right edge: each edge gets its own meta value, whatever the other three are.
C10_DirectEdgesWhenNotMirrored ==
  [][(lastCall'.op = "didSetProps" /\ ~doLeftAndRightSwapInRTL) =>
       LET v == lastCall'.self IN
         \A e \in {"Start", "End", "Left", "Right"} :
           /\ recompute[v].padding =>
                yogaPadding'[v][e] = RCT_SET_YGVALUE(paddingMetaProps[v][MetaPropOfEdge(e)])
           /\ recompute[v].margin =>
                yogaMargin'[v][e] = RCT_SET_YGVALUE_AUTO(marginMetaProps[v][MetaPropOfEdge(e)])
           /\ recompute[v].border =>
                yogaBorder'[v][e] = borderMetaProps[v][MetaPropOfEdge(e)].value]_vars
\* A commit, mirroring disabled, of a padding with left set and start unset:
\* Left has the value and Start has none.
C10_CommittedLeftWithoutStart ==
  /\ lastCall.op = "didSetProps"
  /\ ~doLeftAndRightSwapInRTL
  /\ paddingMetaProps[Root]["START"].unit = "undefined"
  /\ paddingMetaProps[Root]["LEFT"].unit = "point"
  /\ yogaPadding[Root]["Left"] = paddingMetaProps[Root]["LEFT"]
  /\ yogaPadding[Root]["Start"] = YGValueUndefined

\* C11: with mirroring enabled, didSetProps sets, for each group it commits, the
\* solver's Start edge to the start value when start is set and to the left value
\* when it is not, and the End edge to the end value when end is set and to the
\* right value when it is not.
Preferred(metaProps, first, second, isSet(_)) ==
  IF isSet(metaProps[first]) THEN metaProps[first] ELSE metaProps[second]
UnitIsSet(ygvalue) == ygvalue.unit # "undefined"
ValueIsSet(ygvalue) == ygvalue.value # Undefined
C11_StartEndFirstWhenMirrored ==
  [][(lastCall'.op = "didSetProps" /\ doLeftAndRightSwapInRTL) =>
       LET v == lastCall'.self IN
         /\ recompute[v].padding =>
              /\ yogaPadding'[v]["Start"] =
                   RCT_SET_YGVALUE(Preferred(paddingMetaProps[v], "START", "LEFT", UnitIsSet))
              /\ yogaPadding'[v]["End"] =
                   RCT_SET_YGVALUE(Preferred(paddingMetaProps[v], "END", "RIGHT", UnitIsSet))
         /\ recompute[v].margin =>
              /\ yogaMargin'[v]["Start"] =
                   RCT_SET_YGVALUE_AUTO(Preferred(marginMetaProps[v], "START", "LEFT", UnitIsSet))
              /\ yogaMargin'[v]["End"] =
                   RCT_SET_YGVALUE_AUTO(Preferred(marginMetaProps[v], "END", "RIGHT", UnitIsSet))
         /\ recompute[v].border =>
              /\ yogaBorder'[v]["Start"] =
                   Preferred(borderMetaProps[v], "START", "LEFT", ValueIsSet).value
              /\ yogaBorder'[v]["End"] =
                   Preferred(borderMetaProps[v], "END", "RIGHT", ValueIsSet).value]_vars
\* A commit, mirroring enabled, of a margin with start and left set to different
\* values: Start has the start value.
C11_CommittedStartOverLeft ==
  /\ lastCall.op = "didSetProps"
  /\ doLeftAndRightSwapInRTL
  /\ marginMetaProps[Root]["START"].unit = "point"
  /\ marginMetaProps[Root]["LEFT"].unit = "point"
  /\ marginMetaProps[Root]["START"] # marginMetaProps[Root]["LEFT"]
  /\ yogaMargin[Root]["Start"] = marginMetaProps[Root]["START"]

\* ------------------------------------------------------------- PersistentLog
\* Strings are sequences of characters; the file system is reliable (no read or
\* write throws), so every promise is resolved.
LineFeed == "\n"
Entries == {<<>>, <<"a">>, <<"b">>}
InitialFiles == {NoFile, <<"b">>}
Filters == {"notA"}
\* A PersistentLogFilter applied to an entry.
FilterAccepts(filter, entry) == filter = "notA" /\ entry # <<"a">>

\* String.components(separatedBy: "\n") of a string
RECURSIVE Components(_)
Components(string) ==
  IF \A i \in 1..Len(string) : string[i] # LineFeed THEN <<string>>
  ELSE LET i == CHOOSE k \in 1..Len(string) :
                  string[k] = LineFeed /\ \A j \in 1..(k - 1) : string[j] # LineFeed
       IN  <<SubSeq(string, 1, i - 1)>> \o Components(SubSeq(string, i + 1, Len(string)))
\* Array.joined(separator: "\n")
RECURSIVE Joined(_)
Joined(list) ==
  IF list = <<>> THEN <<>>
  ELSE IF Len(list) = 1 THEN list[1]
  ELSE list[1] \o <<LineFeed>> \o Joined(Tail(list))
\* Array.filter
RECURSIVE FilterList(_, _)
FilterList(list, filter) ==
  IF list = <<>> THEN <<>>
  ELSE (IF FilterAccepts(filter, list[1]) THEN <<list[1]>> ELSE <<>>)
         \o FilterList(Tail(list), filter)

\* _stringToList
_stringToList(contents) ==
  IF contents # NoFile /\ Len(contents) > 0 THEN Components(contents) ELSE <<>>
\* _ensureFileExists, on the file system F
_ensureFileExists(F, filePath) ==
  IF F[filePath] = NoFile THEN [F EXCEPT ![filePath] = <<>>] ELSE F
\* _deleteFileSync that leaves the file where it is.
_deleteFileSyncKeeping(F, filePath) == F
\* _deleteFileSync
_deleteFileSync(F, filePath) ==
  IF F[filePath] # NoFile THEN [F EXCEPT ![filePath] = NoFile] ELSE F
\* FileManager.removeItem(atPath:) throws when there is no file at the path;
\* _deleteFileSync calls it, and so throws, only for a file that exists.
removeItemThrows(F, filePath) == F[filePath] = NoFile
_deleteFileSyncThrows(F, filePath) == F[filePath] # NoFile /\ removeItemThrows(F, filePath)
\* _writeFileSync
_writeFileSync(F, filePath, contents) ==
  IF contents = <<>> THEN _deleteFileSync(F, filePath)
  ELSE [_ensureFileExists(F, filePath) EXCEPT ![filePath] = Joined(contents)]

\* What the operations of PersistentLog leave alone.
shadowVars == <<reactSubviews, superview, treeSolverVars, solverVars, passVars, lastCall,
                mutations, leafOnly, rootHadNewLayout, passRaised, solvedHasNewLayout,
                phase, calculating, ancestorResult, textVars>>
Submitted == Len(resolved) + Len(serialQueue) + (IF running = NoBlock THEN 0 ELSE 1)
\* PersistentLog.serialQueue.async { ... }: the block joins the queue.
async(block) ==
  /\ Submitted < MaxSubmitted
  /\ serialQueue' = Append(serialQueue, [block EXCEPT !.id = Submitted + 1])
  /\ UNCHANGED <<logFile, running, resolved, shadowVars>>
Block(op, filePath, entry, filter) ==
  [op |-> op, filePath |-> filePath, entry |-> entry, filter |-> filter, id |-> 0]
\* readEntries
readEntries(filePath) == async(Block("readEntries", filePath, <<>>, "none"))
\* appendEntry
appendEntry(filePath, entry) == async(Block("appendEntry", filePath, entry, "none"))
\* filterEntries
filterEntries(filePath, filter) == async(Block("filterEntries", filePath, <<>>, filter))
\* clearEntries
clearEntries(filePath) == async(Block("clearEntries", filePath, <<>>, "none"))

ReadEntries == \E filePath \in LogFiles : readEntries(filePath)
AppendEntry == \E filePath \in LogFiles, entry \in Entries : appendEntry(filePath, entry)
FilterEntries == \E filePath \in LogFiles, filter \in Filters : filterEntries(filePath, filter)
ClearEntries == \E filePath \in LogFiles : clearEntries(filePath)

\* The serial queue starts the block at its head when no block is running; the
\* block then runs up to its write: _readFileSync for a read, an append and a filter.
StartBlock ==
  /\ running = NoBlock
  /\ serialQueue # <<>>
  /\ LET block == Head(serialQueue)
         F == IF block.op = "clearEntries" THEN logFile
              ELSE _ensureFileExists(logFile, block.filePath)
         contents == IF block.op = "clearEntries" THEN <<>>
                     ELSE _stringToList(F[block.filePath])
     IN  /\ logFile' = F
         /\ running' = [op |-> block.op, filePath |-> block.filePath, entry |-> block.entry,
                        filter |-> block.filter, id |-> block.id, contents |-> contents]
  /\ serialQueue' = Tail(serialQueue)
  /\ UNCHANGED <<resolved, shadowVars>>
\* The running block writes, if it is to write, and resolves its promise.
FinishBlock ==
  /\ running # NoBlock
  /\ LET filePath == running.filePath
         contents == running.contents
     IN  /\ logFile' = CASE running.op = "readEntries" -> logFile
                         [] running.op = "appendEntry" ->
                              _writeFileSync(logFile, filePath, Append(contents, running.entry))
                         [] running.op = "filterEntries" ->
                              _writeFileSync(logFile, filePath, FilterList(contents, running.filter))
                         [] running.op = "clearEntries" -> _deleteFileSync(logFile, filePath)
         /\ resolved' = Append(resolved,
                          [op |-> running.op, filePath |-> filePath, entry |-> running.entry,
                           id |-> running.id,
                           settled |-> IF /\ running.op = "clearEntries"
                                          /\ _deleteFileSyncThrows(logFile, filePath)
                                         THEN "rejected" ELSE "resolved",
                           value |-> IF running.op = "readEntries" THEN contents ELSE <<>>])
  /\ running' = NoBlock
  /\ UNCHANGED <<serialQueue, shadowVars>>

\* Views just constructed; a log file that is absent or that an earlier run wrote.
InitLog ==
  /\ InitDetached
  /\ layoutMetrics = [v \in Views |-> LayoutMetricsZero]
  /\ doLeftAndRightSwapInRTL = FALSE
  /\ InitMetaProps
  /\ InitContext
  /\ InitTypes
  /\ logFile \in [LogFiles -> InitialFiles]
  /\ serialQueue = <<>>
  /\ running = NoBlock
  /\ resolved = <<>>
NextLog == ReadEntries \/ AppendEntry \/ FilterEntries \/ ClearEntries \/ StartBlock \/ FinishBlock
SpecLog == InitLog /\ [][NextLog]_vars

\* ======================================================= AndroidTextInputState
\* Numbers of the model are in units of which a float holds the even ones exactly:
\* what storing a double in a float member keeps (lines 69-83 into the members the
\* first constructor takes as float, lines 36-39).
FloatOfDouble(x) == 2 * (x \div 2)

\* folly::dynamic::getDefault(key, default) on an object.
getDefault(data, key, default) == IF key \in DOMAIN data THEN data[key] ELSE default

\* AndroidTextInputState(mostRecentEventCount, attributedString, ...): lines 27-50.
\* cachedAttributedStringId is not among the members it initialises; what it holds
\* then is the declaration's business, which is not in this file.
AndroidTextInputStateNew(mostRecentEventCount, cachedAttributedStringId, attributedString, paddings) ==
  [mostRecentEventCount |-> mostRecentEventCount,
   cachedAttributedStringId |-> cachedAttributedStringId,
   attributedString |-> attributedString,
   reactTreeAttributedString |-> <<"tree", attributedString>>,
   paragraphAttributes |-> "paragraphAttributes",
   defaultTextAttributes |-> "defaultTextAttributes",
   defaultParentShadowView |-> Root,
   defaultThemePaddingStart |-> paddings[1],
   defaultThemePaddingEnd |-> paddings[2],
   defaultThemePaddingTop |-> paddings[3],
   defaultThemePaddingBottom |-> paddings[4]]

\* AndroidTextInputState(previousState, data) with 0 for an absent opaqueCacheId.
AndroidTextInputStateFromZeroId(previousState, data) ==
  [mostRecentEventCount |->
     getDefault(data, "mostRecentEventCount", previousState.mostRecentEventCount),
   cachedAttributedStringId |-> getDefault(data, "opaqueCacheId", 0),
   attributedString |-> previousState.attributedString,
   reactTreeAttributedString |-> previousState.reactTreeAttributedString,
   paragraphAttributes |-> previousState.paragraphAttributes,
   defaultTextAttributes |-> previousState.defaultTextAttributes,
   defaultParentShadowView |-> previousState.defaultParentShadowView,
   defaultThemePaddingStart |->
     FloatOfDouble(getDefault(data, "themePaddingStart", previousState.defaultThemePaddingStart)),
   defaultThemePaddingEnd |->
     FloatOfDouble(getDefault(data, "themePaddingEnd", previousState.defaultThemePaddingEnd)),
   defaultThemePaddingTop |->
     FloatOfDouble(getDefault(data, "themePaddingTop", previousState.defaultThemePaddingTop)),
   defaultThemePaddingBottom |->
     FloatOfDouble(getDefault(data, "themePaddingBottom", previousState.defaultThemePaddingBottom))]

\* AndroidTextInputState(previousState, data): lines 52-83.
AndroidTextInputStateFrom(previousState, data) ==
  [mostRecentEventCount |->
     getDefault(data, "mostRecentEventCount", previousState.mostRecentEventCount),
   cachedAttributedStringId |->
     getDefault(data, "opaqueCacheId", previousState.cachedAttributedStringId),
   attributedString |-> previousState.attributedString,
   reactTreeAttributedString |-> previousState.reactTreeAttributedString,
   paragraphAttributes |-> previousState.paragraphAttributes,
   defaultTextAttributes |-> previousState.defaultTextAttributes,
   defaultParentShadowView |-> previousState.defaultParentShadowView,
   defaultThemePaddingStart |->
     FloatOfDouble(getDefault(data, "themePaddingStart", previousState.defaultThemePaddingStart)),
   defaultThemePaddingEnd |->
     FloatOfDouble(getDefault(data, "themePaddingEnd", previousState.defaultThemePaddingEnd)),
   defaultThemePaddingTop |->
     FloatOfDouble(getDefault(data, "themePaddingTop", previousState.defaultThemePaddingTop)),
   defaultThemePaddingBottom |->
     FloatOfDouble(getDefault(data, "themePaddingBottom", previousState.defaultThemePaddingBottom))]

\* toDynamic of an attributed string and of paragraph attributes: a map, with a
\* hash in the first.
toDynamic(value) == [hash |-> <<"hash", value>>, value |-> value]

\* AndroidTextInputState::getDynamic: lines 86-103.
getDynamic(state) ==
  IF state.cachedAttributedStringId = 0
    THEN [mostRecentEventCount |-> state.mostRecentEventCount,
          attributedString |-> toDynamic(state.attributedString),
          hash |-> toDynamic(state.attributedString).hash,
          paragraphAttributes |-> toDynamic(state.paragraphAttributes)]
    ELSE [key \in {} |-> 0]

\* The update maps of the model: any set of the six keys, the theme paddings as
\* doubles a float does not hold.
DataKeys == {"mostRecentEventCount", "opaqueCacheId", "themePaddingStart", "themePaddingEnd",
             "themePaddingTop", "themePaddingBottom"}
CacheIds == {0, 7}
DataValue(key, id) ==
  CASE key = "mostRecentEventCount" -> 5
    [] key = "opaqueCacheId" -> id
    [] key = "themePaddingStart" -> 9
    [] key = "themePaddingEnd" -> 19
    [] key = "themePaddingTop" -> 35
    [] key = "themePaddingBottom" -> 67
DataMaps == {[key \in K |-> DataValue(key, id)] : K \in SUBSET DataKeys, id \in CacheIds}

\* A state is constructed from its fields.
NewState ==
  \E attributedString \in {"a", "b"}, cachedAttributedStringId \in CacheIds :
    /\ textInputStates = <<>>
    /\ textInputStates' = <<AndroidTextInputStateNew(0, cachedAttributedStringId,
                                                     attributedString, <<100, 200, 300, 400>>)>>
    /\ lastCall' = [op |-> "AndroidTextInputState"]
    /\ UNCHANGED <<reactSubviews, superview, treeSolverVars, solverVars, passVars, mutations,
                   leafOnly, rootHadNewLayout, passRaised, solvedHasNewLayout, phase,
                   calculating, ancestorResult, textInputDynamic, logVars>>
\* A state is built from the latest state and an update map.
UpdateState ==
  \E data \in DataMaps :
    /\ textInputStates # <<>>
    /\ Len(textInputStates) < MaxStates
    /\ textInputStates' =
         Append(textInputStates,
                AndroidTextInputStateFrom(textInputStates[Len(textInputStates)], data))
    /\ lastCall' = [op |-> "AndroidTextInputState", data |-> data]
    /\ UNCHANGED <<reactSubviews, superview, treeSolverVars, solverVars, passVars, mutations,
                   leafOnly, rootHadNewLayout, passRaised, solvedHasNewLayout, phase,
                   calculating, ancestorResult, textInputDynamic, logVars>>
\* The latest state is serialized.
GetDynamic ==
  /\ textInputStates # <<>>
  /\ textInputDynamic' = [op |-> "getDynamic", state |-> Len(textInputStates),
                          result |-> getDynamic(textInputStates[Len(textInputStates)])]
  /\ lastCall' = [op |-> "getDynamic"]
  /\ UNCHANGED <<reactSubviews, superview, treeSolverVars, solverVars, passVars, mutations,
                 leafOnly, rootHadNewLayout, passRaised, solvedHasNewLayout, phase,
                 calculating, ancestorResult, textInputStates, logVars>>
NextTextInput == NewState \/ UpdateState \/ GetDynamic
SpecTextInput == InitTree /\ [][NextTextInput]_vars

\* C12: insertReactSubview:atIndex: on a view whose class cannot have subviews raises
\* and leaves the view's child list, its solver child list and the subview's superview
\* as they were; on a view that can have subviews the subview ends up at atIndex of the
\* child list and at atIndex of the solver child list.
C12_InsertFailsOnLeafElseAtIndex ==
  [][lastCall'.op = "insertReactSubview" =>
       LET self == lastCall'.self
           subview == lastCall'.subview
           atIndex == lastCall'.atIndex
       IN  IF self \in leafOnly
             THEN /\ lastCall'.raised
                  /\ reactSubviews'[self] = reactSubviews[self]
                  /\ yogaChildren'[YogaNodeOf(self)] = yogaChildren[YogaNodeOf(self)]
                  /\ superview'[subview] = superview[subview]
             ELSE /\ ~lastCall'.raised
                  /\ Len(reactSubviews'[self]) > atIndex
                  /\ reactSubviews'[self][atIndex + 1] = subview
                  /\ Len(yogaChildren'[YogaNodeOf(self)]) > atIndex
                  /\ yogaChildren'[YogaNodeOf(self)][atIndex + 1] = YogaNodeOf(subview)]_vars
\* An insertion into a view without subviews was refused, after one that went through.
C12_InsertRefused ==
  /\ lastCall.op = "insertReactSubview"
  /\ lastCall.raised
  /\ superview[lastCall.subview] \notin {Nil, lastCall.self}
\* C13: removeReactSubview: called on a view of which the subview is not a child
\* changes nothing: the subview's superview and every child list and solver child
\* list are left as they were.
C13_RemoveOfNonChildChangesNothing ==
  [][(/\ lastCall'.op = "removeReactSubview"
      /\ ~Contains(reactSubviews[lastCall'.self], lastCall'.subview)) =>
       /\ superview' = superview
       /\ reactSubviews' = reactSubviews
       /\ yogaChildren' = yogaChildren]_vars
\* C14: between calls the live solver handles are exactly the handles of the live
\* views, one for each view: the one its -init created.
C14_OneLiveHandlePerView ==
  /\ LiveHandles = {YogaNodeOf(v) : v \in Views}
  /\ Cardinality(LiveHandles) = Cardinality(Views)
\* C15: a setter of a margin, padding or border prop stores the value and raises
\* the flag of its group without writing to the solver; -didSetProps: runs the
\* resolver of a group exactly once when the flag of the group is raised, which it is
\* only by a setter of the group since the commit before, and not at all otherwise;
\* it clears the three flags, so that a commit right after a commit writes nothing.
MetaGroups == {"padding", "margin", "border"}
SetterOf(group) == CASE group = "padding" -> "setPadding"
                     [] group = "margin" -> "setMargin"
                     [] group = "border" -> "setBorderWidth"
RunsOf(group, runs) == Cardinality({i \in 1..Len(runs) : runs[i] = group})
SolverEdges(v) == [padding |-> yogaPadding[v], margin |-> yogaMargin[v], border |-> yogaBorder[v]]
SolverEdgesAfter(v) == [padding |-> yogaPadding'[v], margin |-> yogaMargin'[v],
                        border |-> yogaBorder'[v]]
C15_ResolutionCoalescedPerCommit ==
  [][/\ \A group \in MetaGroups :
          /\ lastCall'.op = SetterOf(group) =>
                /\ recompute'[lastCall'.self][group]
                /\ yogaPadding' = yogaPadding /\ yogaMargin' = yogaMargin
                /\ yogaBorder' = yogaBorder /\ yogaDirty' = yogaDirty
          /\ \A v \in Views : (recompute'[v][group] /\ ~recompute[v][group]) =>
                (lastCall'.op = SetterOf(group) /\ lastCall'.self = v)
     /\ lastCall'.op = "didSetProps" =>
          LET v == lastCall'.self
          IN  /\ \A group \in MetaGroups :
                   /\ RunsOf(group, lastCall'.resolverRuns) = IF recompute[v][group] THEN 1 ELSE 0
                   /\ ~recompute[v][group] => SolverEdgesAfter(v)[group] = SolverEdges(v)[group]
                   /\ ~recompute'[v][group]
              /\ (lastCall.op = "didSetProps" /\ lastCall.self = v) =>
                   /\ lastCall'.resolverRuns = <<>>
                   /\ SolverEdgesAfter(v) = SolverEdges(v)
                   /\ yogaDirty' = yogaDirty]_vars
\* A commit ran a resolver that wrote to the solver, and the commit after it ran none.
C15_SecondCommitRanNothing ==
  /\ lastCall.op = "didSetProps"
  /\ lastCall.resolverRuns = <<>>
  /\ \E e \in YGEdges : yogaMargin[lastCall.self][e] # YGValueUndefined
\* C16: a layout pass never stores metrics read from a dirty solver node: every view
\* the pass applied metrics to has a clean solver node, the stored metrics of a view
\* whose node is dirty are left as they were, and the pass raises exactly when the
\* root is dirty after the computation or the loop over the subviews of a view it
\* has applied reaches a dirty one.
AppliedViews(trace) == {trace[i].view : i \in 1..Len(trace)}
C16_NoMetricsFromDirtyNode ==
  [][lastCall'.op = "layout" =>
       /\ \A v \in AppliedViews(passTrace') : ~yogaDirty'[YogaNodeOf(v)]
       /\ \A v \in Views : yogaDirty'[YogaNodeOf(v)] => layoutMetrics'[v] = layoutMetrics[v]
       /\ passRaised' <=>
            \/ yogaDirty'[YogaNodeOf(Root)]
            \/ \E v \in AppliedViews(passTrace') :
                 /\ layoutMetrics'[v].displayType # "none"
                 /\ \E i \in 1..Len(reactSubviews[v]) : yogaDirty'[YogaNodeOf(reactSubviews[v][i])]]_vars
\* A pass applied the root and raised at a dirty subview of it.
C16_PassRaisedAtDirtyChild ==
  /\ lastCall.op = "layout"
  /\ passRaised
  /\ passTrace # <<>>
  /\ \E i \in 1..Len(reactSubviews[Root]) : yogaDirty[YogaNodeOf(reactSubviews[Root][i])]
\* C17: when the root's solver node reports no new layout after the computation,
\* the layout call stores no metrics, clears no has-new-layout flag, applies no view
\* and leaves the affected set empty.
C17_NoNewLayoutNoSideEffects ==
  [][(lastCall'.op = "layout" /\ ~rootHadNewLayout') =>
       /\ layoutMetrics' = layoutMetrics
       /\ \A n \in DOMAIN yogaHasNewLayout : yogaHasNewLayout[n] => yogaHasNewLayout'[n]
       /\ passTrace' = <<>>
       /\ affectedShadowViews' = {}]_vars
\* A layout call returned at once although a subview of the root has a pending flag.
C17_ReturnedWithPendingSubview ==
  /\ lastCall.op = "layout"
  /\ ~rootHadNewLayout
  /\ ~passRaised
  /\ \E i \in 1..Len(reactSubviews[Root]) : yogaHasNewLayout[YogaNodeOf(reactSubviews[Root][i])]
\* C18: a layout call made while a computation of the same root is in progress does
\* not start a second computation: at most one computation is in progress at a time.
C18_NoNestedComputation == Len(calculating) <= 1
\* C19: the blocks of PersistentLog run one at a time in the order they were
\* submitted: promises are settled in submission order and a block starts only when
\* every block submitted before it has settled its promise; hence, when every
\* operation submitted was an appendEntry and all of them have resolved, the file
\* ends with the entries appended, all of them, in submission order.
C19_SerialAndNothingLost ==
  [][/\ \A i \in 1..Len(resolved') : resolved'[i].id = i
     /\ (running = NoBlock /\ running' # NoBlock) => running'.id = Len(resolved) + 1
     /\ (/\ serialQueue' = <<>>
         /\ running' = NoBlock
         /\ \A i \in 1..Len(resolved') : resolved'[i].op = "appendEntry") =>
          \A filePath \in LogFiles :
            LET list == _stringToList(logFile'[filePath])
                N == Len(resolved')
            IN  /\ Len(list) >= N
                /\ \A k \in 1..N : list[Len(list) - N + k] = resolved'[k].entry]_vars

\* C20: a readEntries that runs after an appendEntry(e) has resolved returns the
\* entries a readEntries returned just before the append, followed by e.
C20_AppendThenReadRoundTrips ==
  \A i \in 1..(Len(resolved) - 2) :
    (/\ resolved[i].op = "readEntries"
     /\ resolved[i + 1].op = "appendEntry"
     /\ resolved[i + 2].op = "readEntries") =>
      resolved[i + 2].value = Append(resolved[i].value, resolved[i + 1].entry)
\* C21: after init(fileName:) has returned and before any operation is submitted,
\* the log file exists.
C21_FileExistsAfterInit ==
  Submitted = 0 => \A filePath \in LogFiles : logFile[filePath] # NoFile

\* C22: when a filterEntries block has run, the log holds exactly the entries it
\* held before that the filter accepts, in the order they had.
C22_FilterKeepsAcceptedInOrder ==
  [][(running.op = "filterEntries" /\ running' = NoBlock) =>
       _stringToList(logFile'[running.filePath])
         = FilterList(_stringToList(logFile[running.filePath]), running.filter)]_vars

\* C23: a readEntries that runs after a clearEntries has resolved, with no
\* appendEntry run between the two, returns the empty list; a clearEntries resolves
\* whether the file exists or not, and leaves no file.
C23_ClearThenReadIsEmpty ==
  /\ \A i \in 1..Len(resolved) : resolved[i].op = "clearEntries" =>
       /\ resolved[i].settled = "resolved"
       /\ \A j \in (i + 1)..Len(resolved) :
            (/\ resolved[j].op = "readEntries"
             /\ \A k \in (i + 1)..(j - 1) : resolved[k].op # "appendEntry") =>
              resolved[j].value = <<>>
  /\ (resolved # <<>> /\ resolved[Len(resolved)].op = "clearEntries" /\ running = NoBlock) =>
       logFile[resolved[Len(resolved)].filePath] = NoFile
\* An append, a clear and a read have run in that order, and a clear of a file that
\* does not exist has run.
C23_ReadAfterClearOfWrittenLog ==
  /\ Len(resolved) = 3
  /\ resolved[1].op = "appendEntry" /\ resolved[1].entry # <<>>
  /\ resolved[2].op = "clearEntries"
  /\ resolved[3].op = "readEntries"

\* C24: the superview back-reference agrees with the child lists: a view's
\* superview is p exactly when the view is in p's child list, and it is nil exactly
\* when the view is in no child list.
C24_SuperviewAgreesWithChildLists ==
  \A c \in Views :
    /\ \A p \in Views : superview[c] = p <=> Contains(reactSubviews[p], c)
    /\ superview[c] = Nil <=> \A p \in Views : ~Contains(reactSubviews[p], c)
\* C25: -layoutWithMetrics:layoutContext: stores the incoming metrics and adds the
\* view to the affected set exactly when they differ from the stored ones, and does
\* nothing otherwise: after a pass every view it applied holds the metrics of its
\* solver node, and the affected set is the set of views whose stored metrics the
\* pass changed.
C25_AffectedIffMetricsChanged ==
  [][lastCall'.op = "layout" =>
       /\ affectedShadowViews' = {v \in Views : layoutMetrics'[v] # layoutMetrics[v]}
       /\ \A v \in AppliedViews(passTrace') :
            layoutMetrics'[v] = RCTLayoutMetricsFromYogaNode([layout |-> yogaLayout'], YogaNodeOf(v))
       /\ \A v \in Views \ AppliedViews(passTrace') : layoutMetrics'[v] = layoutMetrics[v]]_vars
\* A pass applied a view whose metrics it changed and one whose metrics it kept.
C25_OneChangedOneKept ==
  /\ lastCall.op = "layout"
  /\ affectedShadowViews # {}
  /\ AppliedViews(passTrace) \ affectedShadowViews # {}
\* C26: -layoutSubviewsWithContext: takes the subviews in the order of the child
\* list; it applies a subview exactly when the solver left its has-new-layout flag
\* set, and leaves a subview it skips, and the whole subtree of that subview, with
\* the stored metrics and the flags they had; the flag of a subview it applies is
\* cleared before the metrics are applied; no view is applied twice in a pass.
TraceIndex(trace, v) == CHOOSE i \in 1..Len(trace) : trace[i].view = v
C26_SubviewsInOrderSkippingClean ==
  [][lastCall'.op = "layout" =>
       LET trace == passTrace'
           applied == AppliedViews(trace)
       IN  /\ \A p \in Views : \A i, j \in 1..Len(reactSubviews[p]) :
                (i < j /\ reactSubviews[p][i] \in applied /\ reactSubviews[p][j] \in applied) =>
                  TraceIndex(trace, reactSubviews[p][i]) < TraceIndex(trace, reactSubviews[p][j])
           /\ \A p \in applied : layoutMetrics'[p].displayType # "none" =>
                \A i \in 1..Len(reactSubviews[p]) :
                  reactSubviews[p][i] \in applied <=> solvedHasNewLayout'[reactSubviews[p][i]]
           /\ \A p \in Views \ applied :
                \A v \in Subtree(reactSubviews, p) :
                  /\ v \notin applied
                  /\ layoutMetrics'[v] = layoutMetrics[v]
                  /\ yogaHasNewLayout'[YogaNodeOf(v)] = solvedHasNewLayout'[v]
           /\ \A i \in 1..Len(trace) :
                /\ ~trace[i].hasNewLayout
                /\ ~yogaHasNewLayout'[YogaNodeOf(trace[i].view)]
                /\ \A j \in 1..Len(trace) : trace[i].view = trace[j].view => i = j]_vars
\* A pass applied the root and one of its subviews, and skipped another subview,
\* whose flag the solver had left clear.
C26_OneSkipped ==
  /\ lastCall.op = "layout"
  /\ Root \in AppliedViews(passTrace)
  /\ layoutMetrics[Root].displayType # "none"
  /\ \E i \in 1..Len(reactSubviews[Root]) :
       /\ reactSubviews[Root][i] \notin AppliedViews(passTrace)
       /\ ~solvedHasNewLayout[reactSubviews[Root][i]]
       /\ \E k \in 1..Len(reactSubviews[Root]) : reactSubviews[Root][k] \in AppliedViews(passTrace)
\* C27: the three resolvers take each solver edge from the same prop: with the three
\* groups set alike, after a commit the padding of an edge is the margin of the edge
\* with auto turned into undefined, and the border width of an edge is the number of
\* the prop the margin of the edge was taken from.
AutoToUndefined(ygvalue) == IF ygvalue.unit = "auto" THEN YGValueUndefined ELSE ygvalue
AutoProps(v) == {m \in HorizontalProps : marginMetaProps[v][m].unit = "auto"}
C27_SameSourceInThreeGroups ==
  lastCall.op = "didSetProps" =>
    LET v == lastCall.self
    IN  \A e \in YGEdges :
          /\ yogaPadding[v][e] = AutoToUndefined(yogaMargin[v][e])
          /\ CASE yogaMargin[v][e].unit = "point" -> yogaBorder[v][e] = yogaMargin[v][e].value
               [] yogaMargin[v][e].unit = "undefined" -> yogaBorder[v][e] = Undefined
               [] yogaMargin[v][e].unit = "auto" ->
                    yogaBorder[v][e] \in {PropPoints(m) : m \in AutoProps(v)}
\* A commit with mirroring on took the Start edge from left, start being unset, and
\* the End edge from end, in the three groups.
C27_StartFromLeftInThreeGroups ==
  /\ lastCall.op = "didSetProps"
  /\ doLeftAndRightSwapInRTL
  /\ yogaMargin[Root]["Start"] = YGPoint(PropPoints("LEFT"))
  /\ yogaPadding[Root]["Start"] = YGPoint(PropPoints("LEFT"))
  /\ yogaBorder[Root]["Start"] = PropPoints("LEFT")
  /\ yogaBorder[Root]["End"] = PropPoints("END")
\* C28: a layout pass goes Idle -> Solving -> Applying -> Idle: the layout metrics
\* and the affected set change only in the step that follows the return of the
\* solver, that step applies metrics to each view at most once, and a pass that has
\* begun always comes back to Idle (having finished or raised).
PhaseOrder == {<<"Idle", "Solving">>, <<"Solving", "Applying">>, <<"Applying", "Idle">>}
C28_PassSolvesThenAppliesThenEnds ==
  /\ [][/\ phase' # phase => <<phase, phase'>> \in PhaseOrder
        /\ (\/ layoutMetrics' # layoutMetrics
            \/ affectedShadowViews' # affectedShadowViews
            \/ passTrace' # passTrace) => phase = "Applying" /\ phase' = "Idle"
        /\ \A i, j \in 1..Len(passTrace') : passTrace'[i].view = passTrace'[j].view => i = j]_vars
  /\ (phase # "Idle") ~> (phase = "Idle")
\* A pass over a tree of three views has come back to Idle after it applied metrics
\* to all three.
C28_PassEndedOverThreeViews ==
  /\ phase = "Idle"
  /\ lastCall.op = "layout"
  /\ ~passRaised
  /\ AppliedViews(passTrace) = Views
\* C29: the subviews of a view whose stored display type is none are not visited:
\* in a layout pass no view below such a view has its metrics changed, is added to
\* the affected set, or has the has-new-layout flag the solver left on its node
\* cleared.
C29_NothingAppliedBelowDisplayNone ==
  [][lastCall'.op = "layout" =>
       \A v \in Views : layoutMetrics'[v].displayType = "none" =>
         \A d \in Subtree(reactSubviews, v) \ {v} :
           /\ d \notin AppliedViews(passTrace')
           /\ layoutMetrics'[d] = layoutMetrics[d]
           /\ d \notin affectedShadowViews'
           /\ yogaHasNewLayout'[YogaNodeOf(d)] = solvedHasNewLayout'[d]]_vars
\* A pass stored display type none on a subview of the root and left the new layout
\* of that subview's own subview unapplied, its flag still set.
C29_NewLayoutLeftBelowDisplayNone ==
  /\ lastCall.op = "layout"
  /\ ~passRaised
  /\ \E v \in AppliedViews(passTrace) \ {Root} :
       /\ layoutMetrics[v].displayType = "none"
       /\ \E d \in Subtree(reactSubviews, v) \ {v} :
            /\ solvedHasNewLayout[d]
            /\ yogaHasNewLayout[YogaNodeOf(d)]
            /\ d \notin AppliedViews(passTrace)
\* C30: after any sequence of setIntrinsicContentSize: calls a view's solver node
\* has the measure function exactly when the intrinsic content size is not
\* (UIViewNoIntrinsicMetric, UIViewNoIntrinsicMetric); a call with the current size
\* changes neither the size, the measure function nor any solver node, and a call
\* with another size stores it and leaves the view's solver node dirty.
C30_MeasureFuncIffIntrinsicSize ==
  /\ [](\A v \in Views :
          hasMeasureFunc[v] <=>
            intrinsicContentSize[v] # <<UIViewNoIntrinsicMetric, UIViewNoIntrinsicMetric>>)
  /\ [][lastCall'.op = "setIntrinsicContentSize" =>
          IF intrinsicContentSize[lastCall'.self] = lastCall'.size
            THEN UNCHANGED <<intrinsicContentSize, hasMeasureFunc, treeSolverVars, solverVars>>
            ELSE /\ intrinsicContentSize'[lastCall'.self] = lastCall'.size
                 /\ yogaDirty'[YogaNodeOf(lastCall'.self)]]_vars
\* One view was given a size and then another size; the last call gave a second
\* view the size it already had, and that view's node is still clean.
C30_ChangedDirtyEqualClean ==
  /\ lastCall.op = "setIntrinsicContentSize"
  /\ lastCall.self = 3
  /\ lastCall.size = intrinsicContentSize[3]
  /\ ~yogaDirty[YogaNodeOf(3)]
  /\ ~hasMeasureFunc[3]
  /\ intrinsicContentSize[2] = <<UIViewNoIntrinsicMetric, 50>>
  /\ hasMeasureFunc[2]
  /\ yogaDirty[YogaNodeOf(2)]
\* C31: viewIsDescendantOf: answers YES exactly when the ancestor is nil, the view
\* itself or a view reached from it by following the superview references;
\* measureLayoutRelativeToAncestor: answers the null rectangle exactly when
\* viewIsDescendantOf: answers NO, and otherwise the view's own size at the sum of the
\* stored frame origins of the view and of its ancestors strictly below the given
\* one; and after removeReactSubview: of a subview neither the subview nor a view of
\* its subtree is a descendant of the former parent.
RECURSIVE UpChain(_, _)
\* The views reached from v by following superview references, v included.
UpChain(v, n) == IF v = Nil \/ n = 0 THEN {} ELSE {v} \cup UpChain(superview[v], n - 1)
RECURSIVE DownSet(_, _, _)
\* The views reached from v by following child lists, v included.
DownSet(ch, v, n) ==
  IF n = 0 THEN {v} ELSE {v} \cup UNION {DownSet(ch, ch[v][i], n - 1) : i \in 1..Len(ch[v])}
RECURSIVE SumOrigins(_)
SumOrigins(S) == IF S = {} THEN <<0, 0>>
                 ELSE LET v == CHOOSE x \in S : TRUE
                      IN  Add(layoutMetrics[v].frame.origin, SumOrigins(S \ {v}))
IsDescendant(v, a) == a = Nil \/ a \in UpChain(v, NumViews)
StrictlyBelow(v, a) == {u \in UpChain(v, NumViews) : u # a /\ IsDescendant(u, a)}
C31_AncestorQueriesFollowSuperviews ==
  /\ [](lastCall.op = "viewIsDescendantOf" =>
          /\ ancestorResult.returns
          /\ ancestorResult.result = IsDescendant(ancestorResult.self, ancestorResult.ancestor))
  /\ [](lastCall.op = "measureLayoutRelativeToAncestor" =>
          /\ ancestorResult.returns
          /\ ancestorResult.result =
               IF IsDescendant(ancestorResult.self, ancestorResult.ancestor)
                 THEN [origin |-> SumOrigins(StrictlyBelow(ancestorResult.self,
                                                           ancestorResult.ancestor)),
                       size |-> layoutMetrics[ancestorResult.self].frame.size]
                 ELSE CGRectNull)
  /\ [][\A p, c, d \in Views :
          (/\ lastCall'.op = "removeReactSubview"
           /\ lastCall'.self = p
           /\ lastCall'.subview = c
           /\ Contains(reactSubviews[p], c)
           /\ d \in DownSet(reactSubviews', c, NumViews)) =>
            LET answer == viewIsDescendantOfValue(d, p)'
            IN  answer.returns /\ ~answer.result]_vars
\* C32: a text-input state built from a previous state and an update map takes
\* mostRecentEventCount, the cached string id (key opaqueCacheId) and the four theme
\* paddings (as floats) from the map where the key is present and from the previous
\* state otherwise, copies every other field, and leaves the states built before as
\* they were; getDynamic returns the empty map exactly when the cached string id is
\* not 0, so a state built from a state with a non-zero id by an update without
\* opaqueCacheId serializes to the empty map.
CopiedFields == {"attributedString", "reactTreeAttributedString", "paragraphAttributes",
                 "defaultTextAttributes", "defaultParentShadowView"}
PaddingKeys == [defaultThemePaddingStart |-> "themePaddingStart",
                defaultThemePaddingEnd |-> "themePaddingEnd",
                defaultThemePaddingTop |-> "themePaddingTop",
                defaultThemePaddingBottom |-> "themePaddingBottom"]
C32_UpdatedStateFromMapElsePrevious ==
  /\ [][(textInputStates # <<>> /\ Len(textInputStates') = Len(textInputStates) + 1) =>
          LET previousState == textInputStates[Len(textInputStates)]
              state == textInputStates'[Len(textInputStates')]
              data == lastCall'.data
          IN  /\ state.mostRecentEventCount =
                   IF "mostRecentEventCount" \in DOMAIN data
                     THEN data["mostRecentEventCount"] ELSE previousState.mostRecentEventCount
              /\ state.cachedAttributedStringId =
                   IF "opaqueCacheId" \in DOMAIN data
                     THEN data["opaqueCacheId"] ELSE previousState.cachedAttributedStringId
              /\ \A field \in DOMAIN PaddingKeys :
                   state[field] = IF PaddingKeys[field] \in DOMAIN data
                                    THEN FloatOfDouble(data[PaddingKeys[field]])
                                    ELSE previousState[field]
              /\ \A field \in CopiedFields : state[field] = previousState[field]
              /\ SubSeq(textInputStates', 1, Len(textInputStates)) = textInputStates
              /\ (previousState.cachedAttributedStringId # 0 /\ "opaqueCacheId" \notin DOMAIN data)
                   => DOMAIN getDynamic(state) = {}]_vars
  /\ [](textInputDynamic.op = "getDynamic" =>
          (DOMAIN textInputDynamic.result = {}
             <=> textInputStates[textInputDynamic.state].cachedAttributedStringId # 0))
\* The second state took a non-zero id from its map, the third was built by an
\* update without opaqueCacheId that set a padding, and serialized to the empty map.
C32_EmptyMapAfterUpdateWithoutId ==
  /\ Len(textInputStates) = 3
  /\ textInputStates[1].cachedAttributedStringId = 0
  /\ textInputStates[2].cachedAttributedStringId # 0
  /\ textInputStates[3].defaultThemePaddingStart # textInputStates[2].defaultThemePaddingStart
  /\ textInputStates[3].defaultThemePaddingEnd = textInputStates[1].defaultThemePaddingEnd
  /\ textInputDynamic.op = "getDynamic"
  /\ textInputDynamic.state = 3
  /\ DOMAIN textInputDynamic.result = {}
====
